---- MODULE Spec2Model ----
(***************************************************************************)
(* Model of the ExpApp household finance tracker: the local cache          *)
(* (loadState / saveState), the snapshot managers of the two application   *)
(* variants (tabbed App with remote sync, routed App with Dashboard) and   *)
(* the tabbed App's state store with its debounced remote lanes.           *)
(*                                                                         *)
(* Months are modelled as the number YYYYMM, whose order is the            *)
(* lexicographic order of the "YYYY-MM" key the code builds.               *)
(***************************************************************************)
EXTENDS Integers, Sequences, FiniteSets, TLC

----------------------------------------------------------------------------
(* Bounds of the model *)

\* total number of UI mutations in one run of the tabbed App
MaxEdits == 2
\* total number of auth events (onAuthStateChange callbacks) in one run
MaxAuthEvents == 1
\* number of times the debounce timer of one lane fires in one run
MaxFlushes == 2
\* total number of remote requests that fail in one run
MaxFailures == 1
\* transaction edits and firings of the transaction timer in a run of the
\* transaction lane
TxMaxEdits == 1
TxMaxFlushes == 2
\* UI mutations and timer firings per lane in a run with every remote request
RemoteMaxEdits == 1
RemoteMaxFlushes == 1
\* UI mutations of each variant in a run without a session
LocalMaxEdits == 2
RoutedMaxEdits == 2
\* UI mutations in a run of the snapshot lane
SnapMaxEdits == 3
\* UI mutations of each variant in a run of every edit handler
EditsMaxEdits == 3
\* the scenario of sign-out and sign-in (SpecSwitch)
SwitchMaxAuthEvents == 2
SwitchMaxEdits == 1
SwitchMaxFlushes == 1
SwitchMaxFailures == 0

\* identities the auth provider can report
Users == {"A", "B"}
NoUser == "none"
\* the identity of the session the browser may hold at startup
StoredSessionUser == "A"

\* yyyyMm / the month template string: the key of a date of that year and month
yyyyMm(year, month) == year * 100 + month

\* the calendar month of the run and the one before it
ThisMonth == yyyyMm(2026, 11)
LastMonth == yyyyMm(2026, 10)

----------------------------------------------------------------------------
(* Numbers.  A value of type number is modelled exactly: a finite value is *)
(* the fraction n/d in lowest terms with d > 0, and NaN, Infinity and      *)
(* -Infinity are values of their own.  undefined (an absent field or       *)
(* argument) and null are carried in the same shape, so that the           *)
(* operators below can coerce them as the language does.  The operators    *)
(* are functions of the values of their operands.                          *)

Kinds == {"finite", "NaN", "Infinity", "-Infinity", "undefined", "null"}

Number == [kind : Kinds, n : Int, d : Nat]

Abs[i \in Int] == IF i < 0 THEN -i ELSE i

gcd[a \in Nat, b \in Nat] == IF b = 0 THEN a ELSE gcd[b, a % b]

\* the finite number n/d, d # 0
Fraction[n \in Int, d \in Int] ==
  LET g == gcd[Abs[n], Abs[d]]
      s == IF d < 0 THEN -1 ELSE 1
  IN [kind |-> "finite", n |-> s * (n \div g), d |-> s * (d \div g)]

\* a whole number
Num(i) == [kind |-> "finite", n |-> i, d |-> 1]

NaN == [kind |-> "NaN", n |-> 0, d |-> 1]
Infinity == [kind |-> "Infinity", n |-> 1, d |-> 1]
NegInfinity == [kind |-> "-Infinity", n |-> -1, d |-> 1]
undefined == [kind |-> "undefined", n |-> 0, d |-> 1]
null == [kind |-> "null", n |-> 0, d |-> 1]

\* the conversion an arithmetic operator or a comparison applies to its operand
ToNumber[x \in Number] ==
  IF x.kind = "undefined" THEN NaN ELSE IF x.kind = "null" THEN Num(0) ELSE x

\* the infinity of a sign
Signed[sign \in Int] == IF sign < 0 THEN NegInfinity ELSE Infinity

\* -a
Neg[a0 \in Number] ==
  LET a == ToNumber[a0]
  IN IF a.kind = "NaN" THEN NaN
     ELSE IF a.kind = "finite" THEN [a EXCEPT !.n = -a.n]
     ELSE Signed[-a.n]

\* a + b
Add[a0 \in Number, b0 \in Number] ==
  LET a == ToNumber[a0]
      b == ToNumber[b0]
  IN IF a.kind = "NaN" \/ b.kind = "NaN" THEN NaN
     ELSE IF a.kind = "finite" /\ b.kind = "finite"
          THEN Fraction[a.n * b.d + b.n * a.d, a.d * b.d]
     ELSE IF a.kind = "finite" THEN b
     ELSE IF b.kind = "finite" THEN a
     ELSE IF a.kind = b.kind THEN a ELSE NaN

\* a - b
Sub[a \in Number, b \in Number] == Add[a, Neg[b]]

\* a * b
Mul[a0 \in Number, b0 \in Number] ==
  LET a == ToNumber[a0]
      b == ToNumber[b0]
  IN IF a.kind = "NaN" \/ b.kind = "NaN" THEN NaN
     ELSE IF a.kind = "finite" /\ b.kind = "finite" THEN Fraction[a.n * b.n, a.d * b.d]
     ELSE IF a.n = 0 \/ b.n = 0 THEN NaN
     ELSE Signed[a.n * b.n]

\* a / b
Div[a0 \in Number, b0 \in Number] ==
  LET a == ToNumber[a0]
      b == ToNumber[b0]
  IN IF a.kind = "NaN" \/ b.kind = "NaN" THEN NaN
     ELSE IF a.kind = "finite" /\ b.kind = "finite"
          THEN IF b.n # 0 THEN Fraction[a.n * b.d, a.d * b.n]
               ELSE IF a.n = 0 THEN NaN ELSE Signed[a.n]
     ELSE IF a.kind = "finite" THEN Num(0)
     ELSE IF b.kind = "finite" THEN Signed[IF b.n < 0 THEN -a.n ELSE a.n]
     ELSE NaN

\* Math.pow(base, exponent) for the exponents the calculators pass it: NaN,
\* Infinity, or a whole number of months, at least 1
Pow[base0 \in Number, exponent0 \in Number] ==
  LET base == ToNumber[base0]
      exponent == ToNumber[exponent0]
  IN CASE exponent.kind = "NaN" -> NaN
       [] exponent.kind # "NaN" /\ base.kind = "NaN" -> NaN
       [] exponent.kind = "Infinity" /\ base.kind = "finite" ->
            IF Abs[base.n] > base.d THEN Infinity
            ELSE IF Abs[base.n] < base.d THEN Num(0) ELSE NaN
       [] exponent.kind = "Infinity" /\ base.kind \in {"Infinity", "-Infinity"} -> Infinity
       [] exponent.kind = "finite" /\ exponent.d = 1 /\ exponent.n = 1
          /\ base.kind # "NaN" -> base
       [] exponent.kind = "finite" /\ exponent.d = 1 /\ exponent.n > 1
          /\ base.kind # "NaN" -> Mul[base, Pow[base, Num(exponent.n - 1)]]

\* a <= 0
LeqZero[a0 \in Number] ==
  LET a == ToNumber[a0]
  IN (a.kind = "finite" /\ a.n <= 0) \/ a.kind = "-Infinity"

\* a === 0
IsZero[a \in Number] == a.kind = "finite" /\ a.n = 0

\* the truth value of a: 0, NaN, undefined and null are falsy
Truthy[a \in Number] ==
  (a.kind = "finite" /\ a.n # 0) \/ a.kind \in {"Infinity", "-Infinity"}

\* a || b
OrElse[a \in Number, b \in Number] == IF Truthy[a] THEN a ELSE b

\* a ?? b
Coalesce[a \in Number, b \in Number] == IF a.kind \in {"undefined", "null"} THEN b ELSE a

\* the global isFinite(a)
isFinite[a \in Number] == ToNumber[a].kind = "finite"

\* Math.round(x): the nearest whole number, a half going up
MathRound[x0 \in Number] ==
  LET x == ToNumber[x0]
  IN IF x.kind = "finite" THEN Num((2 * x.n + x.d) \div (2 * x.d)) ELSE x

----------------------------------------------------------------------------
(* Sequence helpers (Array.prototype.map / filter / reduce) *)

\* reduce((a, b) => a + b, 0)
RECURSIVE SumSeq(_)
SumSeq(s) ==
  IF Len(s) = 0 THEN Num(0) ELSE Add[SumSeq(SubSeq(s, 1, Len(s) - 1)), s[Len(s)]]

MapValue(s) == [i \in 1..Len(s) |-> s[i].value]
MapOutstanding(s) == [i \in 1..Len(s) |-> s[i].outstanding]
MapOutstandingBalance(s) == [i \in 1..Len(s) |-> s[i].outstandingBalance]

Range(s) == {s[i] : i \in 1..Len(s)}

\* all orderings of a finite set as sequences without repetition
Orderings(S) ==
  {s \in [1..Cardinality(S) -> S] : \A i, j \in 1..Cardinality(S) : i # j => s[i] # s[j]}

----------------------------------------------------------------------------
(* Wide integers.  Math.pow(1 + r, n) over a term of a year or more has a  *)
(* numerator and a denominator beyond 32 bits, so the quotient of the EMI  *)
(* formula is computed on naturals of any size: a wide natural is the      *)
(* sequence of its digits in base 10000, the lowest first.                 *)

RECURSIVE Wide(_)
Wide(i) == IF i < 10000 THEN <<i>> ELSE <<i % 10000>> \o Wide(i \div 10000)

RECURSIVE Trim(_)
Trim(a) == IF Len(a) > 1 /\ a[Len(a)] = 0 THEN Trim(SubSeq(a, 1, Len(a) - 1)) ELSE a

Digit(a, i) == IF i <= Len(a) THEN a[i] ELSE 0

RECURSIVE AddFrom(_, _, _, _)
AddFrom(a, b, i, carry) ==
  IF i > Len(a) /\ i > Len(b)
  THEN IF carry = 0 THEN <<>> ELSE <<carry>>
  ELSE <<(Digit(a, i) + Digit(b, i) + carry) % 10000>>
       \o AddFrom(a, b, i + 1, (Digit(a, i) + Digit(b, i) + carry) \div 10000)

\* a + b
WideAdd(a, b) == AddFrom(a, b, 1, 0)

RECURSIVE SubFrom(_, _, _, _)
SubFrom(a, b, i, borrow) ==
  IF i > Len(a) THEN <<>>
  ELSE <<(Digit(a, i) - Digit(b, i) - borrow) % 10000>>
       \o SubFrom(a, b, i + 1, IF Digit(a, i) - Digit(b, i) - borrow < 0 THEN 1 ELSE 0)

\* a - b, for a >= b
WideSub(a, b) == Trim(SubFrom(a, b, 1, 0))

RECURSIVE ScaleFrom(_, _, _, _)
ScaleFrom(a, k, i, carry) ==
  IF i > Len(a) THEN IF carry = 0 THEN <<>> ELSE <<carry>>
  ELSE <<(a[i] * k + carry) % 10000>> \o ScaleFrom(a, k, i + 1, (a[i] * k + carry) \div 10000)

\* a * k, for a digit k
Scale(a, k) == Trim(ScaleFrom(a, k, 1, 0))

\* a * b
RECURSIVE WideMul(_, _)
WideMul(a, b) ==
  IF Len(b) = 1 THEN Scale(a, b[1])
  ELSE WideAdd(Scale(a, b[1]), <<0>> \o WideMul(a, SubSeq(b, 2, Len(b))))

RECURSIVE LessFrom(_, _, _)
LessFrom(a, b, i) ==
  IF i = 0 THEN FALSE
  ELSE IF a[i] # b[i] THEN a[i] < b[i] ELSE LessFrom(a, b, i - 1)

\* a < b
WideLess(a, b) ==
  IF Len(Trim(a)) # Len(Trim(b)) THEN Len(Trim(a)) < Len(Trim(b))
  ELSE LessFrom(Trim(a), Trim(b), Len(Trim(a)))

\* a to the power n, n a natural
RECURSIVE WidePow(_, _)
WidePow(a, n) == IF n = 0 THEN <<1>> ELSE WideMul(WidePow(a, n - 1), a)

\* the largest q in lo..hi with q * d <= a
RECURSIVE WideQuotient(_, _, _, _)
WideQuotient(a, d, lo, hi) ==
  IF lo = hi THEN lo
  ELSE IF WideLess(a, WideMul(d, Wide(lo + (hi - lo + 1) \div 2)))
       THEN WideQuotient(a, d, lo, lo + (hi - lo + 1) \div 2 - 1)
       ELSE WideQuotient(a, d, lo + (hi - lo + 1) \div 2, hi)

\* a positive finite number
Positive(a) == a.kind = "finite" /\ a.n > 0

\* a whole number of months, at least 1
WholeMonths(n) == n.kind = "finite" /\ n.d = 1 /\ n.n >= 1

\* round2((P * r * pow) / (pow - 1)) with pow = Math.pow(1 + r, n), for
\* positive finite P and r and a whole n, and a result below 10^7: with
\* 1 + r = u/v the quotient is P.n * r.n * u^n / (P.d * r.d * (u^n - v^n)),
\* and Math.round(100 * N / D) is the whole part of (200 * N + D) / (2 * D)
round2OfEmiQuotient(P, r, n) ==
  LET u == WidePow(Wide(r.n + r.d), n.n)
      v == WidePow(Wide(r.d), n.n)
      N == WideMul(WideMul(Wide(P.n), Wide(r.n)), u)
      D == WideMul(WideMul(Wide(P.d), Wide(r.d)), WideSub(u, v))
  IN Fraction[WideQuotient(WideAdd(Scale(N, 200), D), Scale(D, 2), 0, 1073741823), 100]

----------------------------------------------------------------------------
(* Tabbed variant: AppState and the local cache                            *)

FieldNames == {"loans", "assets", "liabilities", "budget", "expenseTransactions", "snapshots"}

emptyBudget == [income |-> <<>>, expenses |-> <<>>]

emptyState ==
  [loans |-> <<>>, assets |-> <<>>, liabilities |-> <<>>, budget |-> emptyBudget,
   expenseTransactions |-> <<>>, snapshots |-> <<>>]

\* the fields of a Loan, an Asset, a Liability and a BudgetItem that the
\* totals read
TabbedLoan(auto, P, annualRate, n, emi, balance) ==
  [autoCalculate |-> auto, principal |-> P, annualRate |-> annualRate, termMonths |-> n,
   emi |-> emi, outstandingBalance |-> balance]

BudgetItem(amount, frequency) == [amount |-> amount, frequency |-> frequency]

\* defaultLoan, defaultAsset, defaultLiability
defaultLoan == TabbedLoan(FALSE, Num(0), Num(0), Num(0), Num(0), Num(0))
defaultAsset == [value |-> Num(0)]
defaultLiability == [outstanding |-> Num(0)]

\* Content of the storage key.  kind "absent": getItem returns null; "empty":
\* the empty string; "malformed": text JSON.parse rejects; "null": the JSON
\* text null; "json": the text of an object that holds the keys named in has
\* with the values val gives them (what val gives the other keys is not part
\* of the text).
RawAbsent == [kind |-> "absent", has |-> {}, val |-> emptyState]
RawEmpty == [kind |-> "empty", has |-> {}, val |-> emptyState]
RawMalformed == [kind |-> "malformed", has |-> {}, val |-> emptyState]
RawNull == [kind |-> "null", has |-> {}, val |-> emptyState]
RawJson(has, val) == [kind |-> "json", has |-> has, val |-> val]

\* JSON.stringify of a full AppState: an object holding every field
stringifyState(s) == RawJson(FieldNames, s)

saveState(s) == stringifyState(s)

\* !raw: getItem returned null or the empty string
Falsy(raw) == raw.kind \in {"absent", "empty"}

\* JSON.parse: throws on malformed text; the text null parses to null, whose
\* spread adds no key
JSONparse(raw) ==
  [throws |-> raw.kind = "malformed",
   data |-> IF raw.kind = "json" THEN raw ELSE RawJson({}, emptyState)]

\* { ...data, ...emptyState }: the spread in the other order, where the
\* default overrides the stored key
MergeFieldDefaultsWin(data, f) == emptyState[f]

\* { ...emptyState, ...data }: a key of data overrides the default
MergeField(data, f) == IF f \in data.has THEN data.val[f] ELSE emptyState[f]

MergeOverEmpty(data) == [f \in FieldNames |-> MergeField(data, f)]

\* loadState without its try/catch: the exception of JSON.parse leaves it
loadStateUncaught(raw) ==
  IF Falsy(raw) THEN [threw |-> FALSE, value |-> emptyState]
  ELSE IF JSONparse(raw).throws THEN [threw |-> TRUE, value |-> emptyState]
  ELSE [threw |-> FALSE, value |-> [f \in FieldNames |-> JSONparse(raw).data.val[f]]]

\* loadState of the tabbed variant: the value returned, and whether an
\* exception left the function
loadState(raw) ==
  IF Falsy(raw) THEN [threw |-> FALSE, value |-> emptyState]
  ELSE IF JSONparse(raw).throws THEN [threw |-> FALSE, value |-> emptyState]
  ELSE [threw |-> FALSE, value |-> MergeOverEmpty(JSONparse(raw).data)]

----------------------------------------------------------------------------
(* Tabbed variant: derived totals and the snapshot manager                 *)

\* sum of utils: values.reduce((a, b) => a + b, 0)
sum(values) == SumSeq(values)

\* toMonthly of utils: whatever is neither monthly nor weekly is divided by 12
\* toMonthly with a last branch for the annual tag alone
toMonthlyAnnualOnly(item) ==
  IF item.frequency = "monthly" THEN item.amount
  ELSE IF item.frequency = "weekly" THEN Div[Mul[item.amount, Num(52)], Num(12)]
  ELSE IF item.frequency = "annual" THEN Div[item.amount, Num(12)]
  ELSE item.amount

toMonthly(item) ==
  IF item.frequency = "monthly" THEN item.amount
  ELSE IF item.frequency = "weekly" THEN Div[Mul[item.amount, Num(52)], Num(12)]
  ELSE Div[item.amount, Num(12)]

MapToMonthly(items) == [i \in 1..Len(items) |-> toMonthly(items[i])]

\* calculateEmi of utils
calculateEmi(loan) ==
  LET principal == loan.principal
      monthlyRate == Div[Div[loan.annualRate, Num(100)], Num(12)]
      n == loan.termMonths
      factor == Pow[Add[Num(1), monthlyRate], n]
  IN IF LeqZero[principal] \/ LeqZero[monthlyRate] \/ LeqZero[n] THEN Num(0)
     ELSE Div[Mul[Mul[principal, monthlyRate], factor], Sub[factor, Num(1)]]

\* the addend of a loan in App.loansMonthlyEmi
LoanEmiAddend(loan) ==
  IF loan.autoCalculate THEN calculateEmi(loan) ELSE OrElse[loan.emi, Num(0)]

loansMonthlyEmi(s) == sum([i \in 1..Len(s.loans) |-> LoanEmiAddend(s.loans[i])])

assetsTotal(s) == sum(MapValue(s.assets))

liabilitiesTotal(s) ==
  Add[sum(MapOutstanding(s.liabilities)), sum(MapOutstandingBalance(s.loans))]

netWorth(s) == Sub[assetsTotal(s), liabilitiesTotal(s)]

budgetMonthlyIncome(s) == sum(MapToMonthly(s.budget.income))

budgetMonthlyExpense(s) == Add[sum(MapToMonthly(s.budget.expenses)), loansMonthlyEmi(s)]

budgetLeftOver(s) == Sub[budgetMonthlyIncome(s), budgetMonthlyExpense(s)]

\* BudgetView: the totals it derives from its props data and loansMonthlyEmi
incomeTotal(data) == sum(MapToMonthly(data.income))

expenseTotal(data) == sum(MapToMonthly(data.expenses))

\* the left-over of the budget items alone
leftOverOfItems(data, emi) == Sub[incomeTotal(data), expenseTotal(data)]

leftOver(data, emi) == Sub[Sub[incomeTotal(data), expenseTotal(data)], emi]

\* a snapshot whose net worth adds the liabilities
defaultSnapshotAdded(id, month, assets, liabilities) ==
  [id |-> id, month |-> month, assetsTotal |-> assets, liabilitiesTotal |-> liabilities,
   netWorth |-> Add[assets, liabilities]]

\* defaultSnapshot without createdAt; id is the value uid() returns
defaultSnapshot(id, month, assets, liabilities) ==
  [id |-> id, month |-> month, assetsTotal |-> assets, liabilitiesTotal |-> liabilities,
   netWorth |-> Sub[assets, liabilities]]

\* the list App.saveSnapshot stores: replace in place when the month is
\* found, prepend otherwise
AppUpdatedSnapshots(snapshots, snapshot) ==
  IF \E i \in 1..Len(snapshots) : snapshots[i].month = snapshot.month
  THEN [i \in 1..Len(snapshots) |->
          IF snapshots[i].month = snapshot.month THEN snapshot ELSE snapshots[i]]
  ELSE <<snapshot>> \o snapshots

----------------------------------------------------------------------------
(* Tabbed variant: the state store and the remote store                    *)

VARIABLES
  mounted,              \* "no" before the first render, then "yes", or "crashed"
  state,                \* the in-memory AppState (useState)
  localStorage,         \* content of the storage key expapp.state.v1
  userId,               \* the authenticated identity, or NoUser
  authError,            \* the single error slot
  stateTimer,           \* pending timers of the state-sync effect
  txTimer,              \* pending timers of the transaction-sync effect
  stateReqs,            \* requests in flight on user_state
  snapshotReqs,         \* requests in flight on monthly_snapshots
  txReqs,               \* requests in flight on expense_transactions
  user_state,           \* remote table: rows [user_id, state]
  monthly_snapshots,    \* remote table: rows keyed by (user_id, month)
  expense_transactions, \* remote table: rows keyed by id
  sessionChecked,       \* whether the getSession promise has resolved
  nextUid,              \* the next identity uid() returns
  stateReqCount,        \* requests issued so far on user_state (numbers them)
  snapshotReqCount,     \* requests issued so far on monthly_snapshots
  txReqCount,           \* requests issued so far on expense_transactions
  edits,                \* UI mutations so far
  authEvents,           \* auth callbacks so far
  failures,             \* failed requests so far
  stateFlushes,         \* firings of the state-sync timer so far
  txFlushes,            \* firings of the transaction-sync timer so far
  editsAtFailure,       \* the value of edits when a request last failed, or -1
  burst,                \* state changes absorbed by the latest state-sync timer
  history               \* what the run did so far: the row of the latest capture
                        \* in a session, the transactions the user removed, the
                        \* identity under which each transaction was entered

syncVars ==
  <<mounted, state, localStorage, userId, authError, stateTimer, txTimer, stateReqs,
    snapshotReqs, txReqs, user_state, monthly_snapshots, expense_transactions,
    sessionChecked, nextUid, stateReqCount, snapshotReqCount, txReqCount,
    edits, authEvents, failures, stateFlushes, txFlushes, editsAtFailure, burst,
    history>>

\* Routed variant: the state of its App component
VARIABLES
  routedMounted,        \* "no" before the first render, then "yes", or "crashed"
  routedState,          \* the in-memory AppState (useState)
  routedStorage,        \* content of the storage key household_finance_v1
  routedUid,            \* the next identity uid() returns
  routedEdits           \* UI mutations so far

routedVars == <<routedMounted, routedState, routedStorage, routedUid, routedEdits>>

\* Evaluations of the calculators and of the totals a page derives
VARIABLES
  call                  \* the latest evaluation: the function, its arguments, its result

calcVars == <<call>>

NoCall == [fn |-> "none"]

NoError == "null"

\* inputs of the UI
AssetInputs == {<<>>, <<[value |-> Num(100)]>>}
LoanInputs == {<<>>, <<TabbedLoan(FALSE, Num(0), Num(0), Num(0), Num(500), Num(40))>>}
LiabilityInputs == {<<>>, <<[outstanding |-> Num(10)]>>}
BudgetInputs ==
  {emptyBudget,
   [income |-> <<BudgetItem(Num(3000), "monthly")>>,
    expenses |-> <<BudgetItem(Num(1200), "annual")>>]}
TxDates == {ThisMonth * 100 + 5}
TxDescriptions == {"", "rent"}
TxAmounts == {Num(0), Num(5)}
TxCategory == "Household"

\* a transaction another device of identity A stored earlier
SeedTx ==
  [id |-> 1, date |-> ThisMonth * 100 + 1, category |-> TxCategory,
   description |-> "food", amount |-> Num(7)]
FirstFreshUid == SeedTx.id + 1

\* The remote store: an opaque keyed store with row-level access control

UpsertUserState(table, user, s) ==
  {r \in table : r.user_id # user} \cup {[user_id |-> user, state |-> s]}

UpsertSnapshotRow(table, row) ==
  {r \in table : ~(r.user_id = row.user_id /\ r.month = row.month)} \cup {row}

\* upsert on conflict id; updating another identity's row violates the
\* row-level policy and fails the whole statement
TxUpsertAllowed(table, payload) ==
  \A p \in payload : \A r \in table : r.id = p.id => r.user_id = p.user_id

UpsertTxRows(table, payload) ==
  {r \in table : \A p \in payload : p.id # r.id} \cup payload

RowsOf(table, user) == {r \in table : r.user_id = user}

\* rows ordered by month, descending
OrderedByMonthDesc(rows) ==
  {s \in Orderings(rows) : \A i, j \in 1..Len(s) : i < j => s[i].month >= s[j].month}

\* rows ordered by date, descending; rows of one date come in any order
OrderedByDateDesc(rows) ==
  {s \in Orderings(rows) : \A i, j \in 1..Len(s) : i < j => s[i].date >= s[j].date}

----------------------------------------------------------------------------
(* Tabbed variant: requests, effects and the state setter                  *)

StateReq(op, user, n, s) ==
  [op |-> op, userId |-> user, n |-> n, state |-> s]

SnapshotReq(op, user, n, rows) ==
  [op |-> op, userId |-> user, n |-> n, rows |-> rows]

TxReq(op, user, n, items) ==
  [op |-> op, userId |-> user, n |-> n, items |-> items]

\* the state-sync effect without its cleanup: the timer of the previous run
\* stays pending
StateSyncEffectNoCleanup(timers, nextState, nextUser) ==
  IF nextUser = NoUser THEN timers
  ELSE timers \cup {[userId |-> nextUser, state |-> nextState]}

\* the state-sync effect, deps [state, userId]: its cleanup clears the timer
\* of the previous run, then a timer is set when a session is active
StateSyncEffect(timers, nextState, nextUser) ==
  IF nextUser = NoUser THEN {}
  ELSE {[userId |-> nextUser, state |-> nextState]}

\* the transaction-sync effect, deps [state.expenseTransactions, userId]
TxSyncEffect(timers, items, nextUser) ==
  IF nextUser = NoUser THEN {}
  ELSE {[userId |-> nextUser, items |-> items]}

\* the changes the timer of the state-sync effect stands for once the effect
\* has run again
BurstAfter(nextUser) ==
  IF nextUser = NoUser THEN 0 ELSE IF stateTimer = {} THEN 1 ELSE burst + 1

\* a setter that leaves the cache alone
setStateOnly(resolved, txReplaced) ==
  /\ state' = resolved
  /\ localStorage' = localStorage
  /\ stateTimer' = StateSyncEffect(stateTimer, resolved, userId)
  /\ txTimer' = IF txReplaced
                THEN TxSyncEffect(txTimer, resolved.expenseTransactions, userId)
                ELSE txTimer
  /\ burst' = BurstAfter(userId)

\* setStatePersist: the resolved value is saved to the cache and becomes the
\* state; the effects whose deps changed run.  txReplaced: the update gave
\* expenseTransactions a new array.
setStatePersist(resolved, txReplaced) ==
  /\ state' = resolved
  /\ localStorage' = saveState(resolved)
  /\ stateTimer' = StateSyncEffect(stateTimer, resolved, userId)
  /\ txTimer' = IF txReplaced
                THEN TxSyncEffect(txTimer, resolved.expenseTransactions, userId)
                ELSE txTimer
  /\ burst' = BurstAfter(userId)

\* the request saveSnapshotToSupabase issues, if any; s is the state of the
\* render whose budget and loan totals the function closes over
saveSnapshotToSupabase(user, snapshot, s, n) ==
  IF user = NoUser THEN {}
  ELSE {SnapshotReq("upsert", user, n,
          <<[user_id |-> user, month |-> snapshot.month,
             assets_total |-> snapshot.assetsTotal,
             liabilities_total |-> snapshot.liabilitiesTotal,
             net_worth |-> snapshot.netWorth,
             budget_income |-> budgetMonthlyIncome(s),
             budget_expense |-> budgetMonthlyExpense(s),
             loans_emi |-> loansMonthlyEmi(s)]>>)}

\* a flush that upserts whatever the set holds
saveTransactionsAlwaysUpsert(user, items, n) ==
  IF user = NoUser THEN {} ELSE {TxReq("upsert", user, n, items)}

\* the first request saveTransactionsToSupabase issues, if any
saveTransactionsToSupabase(user, items, n) ==
  IF user = NoUser THEN {}
  ELSE IF Len(items) = 0 THEN {TxReq("deleteAll", user, n, items)}
  ELSE {TxReq("upsert", user, n, items)}

\* the rows saveTransactionsToSupabase upserts
TxPayload(user, items) ==
  {[id |-> items[i].id, user_id |-> user, date |-> items[i].date,
    category |-> items[i].category, description |-> items[i].description,
    amount |-> items[i].amount] : i \in 1..Len(items)}

\* the request saveStateToSupabase issues, if any
saveStateToSupabase(user, nextState, n) ==
  IF user = NoUser THEN {} ELSE {StateReq("upsert", user, n, nextState)}

----------------------------------------------------------------------------
(* Tabbed variant: UI mutations                                            *)

remoteVars == <<user_state, monthly_snapshots, expense_transactions>>
countVars == <<stateReqCount, snapshotReqCount, txReqCount>>

\* the first render: usePersistedState's useState(() => loadState()); an
\* exception in the initializer leaves nothing rendered
Mount ==
  /\ mounted = "no"
  /\ mounted' = IF loadState(localStorage).threw THEN "crashed" ELSE "yes"
  /\ state' = IF loadState(localStorage).threw THEN state
             ELSE loadState(localStorage).value
  /\ UNCHANGED <<localStorage, userId, authError, stateTimer, txTimer, stateReqs,
                 snapshotReqs, txReqs, remoteVars, sessionChecked, nextUid,
                 countVars, edits, authEvents, failures, stateFlushes, txFlushes, history,
                 editsAtFailure, burst>>
  /\ UNCHANGED <<routedVars, calcVars>>

\* AssetsView onChange: update({ ...state, assets: next })
AssetsChange(next) ==
  /\ mounted = "yes"
  /\ next # state.assets
  /\ setStatePersist([state EXCEPT !.assets = next], FALSE)
  /\ edits' = edits + 1
  /\ UNCHANGED <<userId, authError, stateReqs, snapshotReqs, txReqs, remoteVars,
                 sessionChecked, nextUid, countVars, authEvents, failures, history,
                 stateFlushes, txFlushes, mounted, editsAtFailure>>
  /\ UNCHANGED <<routedVars, calcVars>>

\* BudgetView.addTransaction, then onTransactionsChange
addTransaction(txDate, txDescription, txAmount) ==
  /\ mounted = "yes"
  /\ ~(txDescription = "" \/ LeqZero[txAmount])
  /\ LET next == [id |-> nextUid, date |-> txDate, category |-> TxCategory,
                  description |-> txDescription, amount |-> txAmount]
     IN setStatePersist(
          [state EXCEPT !.expenseTransactions = <<next>> \o state.expenseTransactions],
          TRUE)
  /\ nextUid' = nextUid + 1
  /\ edits' = edits + 1
  /\ history' = [history EXCEPT !.enteredBy = @ \cup {[id |-> nextUid, userId |-> userId]}]
  /\ UNCHANGED <<userId, authError, stateReqs, snapshotReqs, txReqs, remoteVars,
                 sessionChecked, countVars, authEvents, failures,
                 stateFlushes, txFlushes, mounted, editsAtFailure>>
  /\ UNCHANGED <<routedVars, calcVars>>

\* BudgetView.removeTransaction, then onTransactionsChange
removeTransaction(id) ==
  /\ mounted = "yes"
  /\ \E i \in 1..Len(state.expenseTransactions) : state.expenseTransactions[i].id = id
  /\ setStatePersist(
       [state EXCEPT !.expenseTransactions =
          SelectSeq(state.expenseTransactions, LAMBDA tx : tx.id # id)],
       TRUE)
  /\ edits' = edits + 1
  /\ history' = [history EXCEPT !.removed = @ \cup {id}]
  /\ UNCHANGED <<userId, authError, stateReqs, snapshotReqs, txReqs, remoteVars,
                 sessionChecked, nextUid, countVars, authEvents, failures,
                 stateFlushes, txFlushes, mounted, editsAtFailure>>
  /\ UNCHANGED <<routedVars, calcVars>>

\* App.saveSnapshot, with the upsert saveSnapshotToSupabase issues at once
saveSnapshot ==
  /\ mounted = "yes"
  /\ LET snapshot == defaultSnapshot(nextUid, ThisMonth, assetsTotal(state),
                                     liabilitiesTotal(state))
         issued == saveSnapshotToSupabase(userId, snapshot, state, snapshotReqCount + 1)
     IN /\ setStatePersist(
             [state EXCEPT !.snapshots = AppUpdatedSnapshots(state.snapshots, snapshot)],
             FALSE)
        /\ snapshotReqs' = snapshotReqs \cup issued
        /\ snapshotReqCount' = snapshotReqCount + Cardinality(issued)
        /\ history' = IF issued = {} THEN history
                      ELSE [history EXCEPT !.lastCapture = (CHOOSE r \in issued : TRUE).rows]
  /\ nextUid' = nextUid + 1
  /\ edits' = edits + 1
  /\ UNCHANGED <<userId, authError, stateReqs, txReqs, remoteVars,
                 sessionChecked, authEvents, failures,
                 stateReqCount, txReqCount, stateFlushes, txFlushes, mounted,
                 editsAtFailure>>
  /\ UNCHANGED <<routedVars, calcVars>>

\* update(next) of usePersistedState, called with a state that keeps the
\* transaction array
update(next) ==
  /\ mounted = "yes"
  /\ next # state
  /\ setStatePersist(next, FALSE)
  /\ edits' = edits + 1
  /\ UNCHANGED <<userId, authError, stateReqs, snapshotReqs, txReqs, remoteVars,
                 sessionChecked, nextUid, countVars, authEvents, failures, history,
                 stateFlushes, txFlushes, mounted, editsAtFailure>>
  /\ UNCHANGED <<routedVars, calcVars>>

\* a handler that spreads the defaults instead of the current state
handleBudgetChangeOverDefaults(budget) == update([emptyState EXCEPT !.budget = budget])

\* App.handleBudgetChange
handleBudgetChange(budget) == update([state EXCEPT !.budget = budget])

\* LoansView onChange: update({ ...state, loans: next })
LoansChange(next) == update([state EXCEPT !.loans = next])

\* LiabilitiesView onChange: update({ ...state, liabilities: next })
LiabilitiesChange(next) == update([state EXCEPT !.liabilities = next])

addLoan == update([state EXCEPT !.loans = <<defaultLoan>> \o state.loans])

addAsset == update([state EXCEPT !.assets = <<defaultAsset>> \o state.assets])

addLiability ==
  update([state EXCEPT !.liabilities = <<defaultLiability>> \o state.liabilities])

----------------------------------------------------------------------------
(* Tabbed variant: debounce timers and auth events                         *)

\* the 800ms timer of the state-sync effect fires
StateTimerFire ==
  /\ stateFlushes' = stateFlushes + 1
  /\ UNCHANGED txFlushes
  /\ \E t \in stateTimer :
    LET issued == saveStateToSupabase(t.userId, t.state, stateReqCount + 1)
    IN /\ stateTimer' = stateTimer \ {t}
       /\ stateReqs' = stateReqs \cup issued
       /\ stateReqCount' = stateReqCount + Cardinality(issued)
       /\ UNCHANGED <<burst, mounted, editsAtFailure, state, localStorage, userId, authError, txTimer, snapshotReqs,
                      txReqs, remoteVars, sessionChecked, nextUid, edits, authEvents, history,
                      failures, snapshotReqCount, txReqCount>>
  /\ UNCHANGED <<routedVars, calcVars>>

\* the 800ms timer of the transaction-sync effect fires
TxTimerFire ==
  /\ txFlushes' = txFlushes + 1
  /\ UNCHANGED stateFlushes
  /\ \E t \in txTimer :
    LET issued == saveTransactionsToSupabase(t.userId, t.items, txReqCount + 1)
    IN /\ txTimer' = txTimer \ {t}
       /\ txReqs' = txReqs \cup issued
       /\ txReqCount' = txReqCount + Cardinality(issued)
       /\ UNCHANGED <<state, localStorage, userId, authError, stateTimer, stateReqs,
                      snapshotReqs, remoteVars, sessionChecked, nextUid, edits,
                      authEvents, failures, burst, mounted, editsAtFailure, history,
                      stateReqCount,
                      snapshotReqCount>>
  /\ UNCHANGED <<routedVars, calcVars>>

\* setUserId(nextUserId), with the three loads issued when a session exists
\* and the effects that run when userId changed
AcquireSession(nextUserId) ==
  /\ mounted = "yes"
  /\ userId' = nextUserId
  /\ stateReqs' = stateReqs \cup
       (IF nextUserId = NoUser THEN {}
        ELSE {StateReq("select", nextUserId, stateReqCount + 1, emptyState)})
  /\ snapshotReqs' = snapshotReqs \cup
       (IF nextUserId = NoUser THEN {}
        ELSE {SnapshotReq("select", nextUserId, snapshotReqCount + 1, <<>>)})
  /\ txReqs' = txReqs \cup
       (IF nextUserId = NoUser THEN {}
        ELSE {TxReq("select", nextUserId, txReqCount + 1, <<>>)})
  /\ stateReqCount' = stateReqCount + (IF nextUserId = NoUser THEN 0 ELSE 1)
  /\ snapshotReqCount' = snapshotReqCount + (IF nextUserId = NoUser THEN 0 ELSE 1)
  /\ txReqCount' = txReqCount + (IF nextUserId = NoUser THEN 0 ELSE 1)
  /\ stateTimer' = IF nextUserId = userId THEN stateTimer
                   ELSE StateSyncEffect(stateTimer, state, nextUserId)
  /\ txTimer' = IF nextUserId = userId THEN txTimer
                ELSE TxSyncEffect(txTimer, state.expenseTransactions, nextUserId)
  /\ burst' = IF nextUserId = userId THEN burst ELSE BurstAfter(nextUserId)
  /\ UNCHANGED <<mounted, state, localStorage, remoteVars, nextUid, edits, failures, history,
                 stateFlushes, txFlushes, editsAtFailure>>
  /\ UNCHANGED <<routedVars, calcVars>>

\* supabase.auth.getSession().then(...) at mount
GetSessionResolved(nextUserId) ==
  /\ ~sessionChecked
  /\ sessionChecked' = TRUE
  /\ AcquireSession(nextUserId)
  /\ UNCHANGED <<authError, authEvents>>

\* the onAuthStateChange callback; another identity signs in only after a
\* sign-out
AuthStateChange(nextUserId) ==
  /\ nextUserId = userId \/ nextUserId = NoUser \/ userId = NoUser
  /\ authEvents' = authEvents + 1
  /\ authError' = NoError
  /\ AcquireSession(nextUserId)
  /\ UNCHANGED sessionChecked

----------------------------------------------------------------------------
(* Tabbed variant: the remote store answers                                *)

\* the error of a response: the request may fail while failures are allowed
Outcomes(message, maxFailures) ==
  IF failures < maxFailures THEN {NoError, message} ELSE {NoError}

CountFailure(error) ==
  /\ failures' = IF error = NoError THEN failures ELSE failures + 1
  /\ editsAtFailure' = IF error = NoError THEN editsAtFailure ELSE edits

StateError == "user_state request failed"
SnapshotError == "monthly_snapshots request failed"
TxError == "expense_transactions request failed"
RlsError == "row violates row-level security policy"

\* a handler that drops the error
ReportNothing(error) == authError

\* if (error) setAuthError(error.message)
ReportError(error) == IF error = NoError THEN authError ELSE error

localVars == <<state, localStorage, stateTimer, txTimer, burst>>
boundVars ==
  <<mounted, sessionChecked, nextUid, edits, authEvents, stateFlushes, txFlushes, history>>

\* the user_state upsert of saveStateToSupabase completes
StateUpsertDone(r, error) ==
  /\ r.op = "upsert"
  /\ stateReqs' = stateReqs \ {r}
  /\ user_state' = IF error = NoError
                   THEN UpsertUserState(user_state, r.userId, r.state)
                   ELSE user_state
  /\ authError' = ReportError(error)
  /\ CountFailure(error)
  /\ UNCHANGED <<localVars, boundVars, userId, snapshotReqs, txReqs,
                 monthly_snapshots, expense_transactions, countVars>>
  /\ UNCHANGED <<routedVars, calcVars>>

\* the monthly_snapshots upsert of saveSnapshotToSupabase completes
SnapshotUpsertDone(r, error) ==
  /\ r.op = "upsert"
  /\ snapshotReqs' = snapshotReqs \ {r}
  /\ monthly_snapshots' = IF error = NoError
                          THEN UpsertSnapshotRow(monthly_snapshots, r.rows[1])
                          ELSE monthly_snapshots
  /\ authError' = ReportError(error)
  /\ CountFailure(error)
  /\ UNCHANGED <<localVars, boundVars, userId, stateReqs, txReqs,
                 user_state, expense_transactions, countVars>>
  /\ UNCHANGED <<routedVars, calcVars>>

\* the delete-all of saveTransactionsToSupabase completes
TxDeleteAllDone(r, error) ==
  /\ r.op = "deleteAll"
  /\ txReqs' = txReqs \ {r}
  /\ expense_transactions' = IF error = NoError
                             THEN expense_transactions \ RowsOf(expense_transactions, r.userId)
                             ELSE expense_transactions
  /\ authError' = ReportError(error)
  /\ CountFailure(error)
  /\ UNCHANGED <<localVars, boundVars, userId, stateReqs, snapshotReqs,
                 user_state, monthly_snapshots, countVars>>
  /\ UNCHANGED <<routedVars, calcVars>>

\* the upsert of saveTransactionsToSupabase completes; on success the prune
\* is issued
TxUpsertDone(r, error) ==
  /\ r.op = "upsert"
  /\ error = RlsError <=> ~TxUpsertAllowed(expense_transactions, TxPayload(r.userId, r.items))
  /\ txReqs' = (txReqs \ {r}) \cup
       (IF error = NoError THEN {TxReq("prune", r.userId, txReqCount + 1, r.items)} ELSE {})
  /\ txReqCount' = IF error = NoError THEN txReqCount + 1 ELSE txReqCount
  /\ expense_transactions' =
       IF error = NoError
       THEN UpsertTxRows(expense_transactions, TxPayload(r.userId, r.items))
       ELSE expense_transactions
  /\ authError' = ReportError(error)
  /\ CountFailure(error)
  /\ UNCHANGED <<localVars, boundVars, userId, stateReqs, snapshotReqs,
                 user_state, monthly_snapshots, stateReqCount, snapshotReqCount>>
  /\ UNCHANGED <<routedVars, calcVars>>

\* the prune (delete of the identity's rows whose id is not in the set) completes
TxPruneDone(r, error) ==
  /\ r.op = "prune"
  /\ txReqs' = txReqs \ {r}
  /\ expense_transactions' =
       IF error = NoError
       THEN {row \in expense_transactions :
               ~(row.user_id = r.userId /\ \A i \in 1..Len(r.items) : r.items[i].id # row.id)}
       ELSE expense_transactions
  /\ authError' = ReportError(error)
  /\ CountFailure(error)
  /\ UNCHANGED <<localVars, boundVars, userId, stateReqs, snapshotReqs,
                 user_state, monthly_snapshots, countVars>>
  /\ UNCHANGED <<routedVars, calcVars>>

----------------------------------------------------------------------------
(* Tabbed variant: the three loads of a session acquisition.  A step is    *)
(* the store answering a select and the load function resuming with the    *)
(* answer.                                                                 *)

\* rows of monthly_snapshots as loadSnapshotsFromSupabase maps them
MappedSnapshots(rows, firstUid) ==
  [i \in 1..Len(rows) |->
     [id |-> firstUid + i - 1, month |-> rows[i].month, assetsTotal |-> rows[i].assets_total,
      liabilitiesTotal |-> rows[i].liabilities_total, netWorth |-> rows[i].net_worth]]

\* rows of expense_transactions as loadTransactionsFromSupabase maps them
MappedTransactions(rows) ==
  [i \in 1..Len(rows) |->
     [id |-> rows[i].id, date |-> rows[i].date, category |-> rows[i].category,
      description |-> rows[i].description, amount |-> rows[i].amount]]

\* the state loadStateFromSupabase sets: data.state when a row was found
LoadedState(prev, rows) ==
  IF rows = {} THEN prev ELSE (CHOOSE row \in rows : TRUE).state

\* the state loadSnapshotsFromSupabase sets
LoadedSnapshots(prev, rows, firstUid) ==
  [prev EXCEPT !.snapshots = MappedSnapshots(rows, firstUid)]

\* the state loadTransactionsFromSupabase sets
LoadedTransactions(prev, rows) ==
  [prev EXCEPT !.expenseTransactions = MappedTransactions(rows)]

\* loadStateFromSupabase: select state ... maybeSingle()
LoadStateDone(r, error) ==
  /\ r.op = "select"
  /\ stateReqs' = stateReqs \ {r}
  /\ authError' = ReportError(error)
  /\ CountFailure(error)
  /\ IF error = NoError /\ RowsOf(user_state, r.userId) # {}
     THEN setStatePersist(LoadedState(state, RowsOf(user_state, r.userId)), TRUE)
     ELSE UNCHANGED localVars
  /\ UNCHANGED <<boundVars, userId, snapshotReqs, txReqs, remoteVars, countVars>>
  /\ UNCHANGED <<routedVars, calcVars>>

\* loadSnapshotsFromSupabase: select ... order by month descending
LoadSnapshotsDone(r, error, rows) ==
  /\ r.op = "select"
  /\ snapshotReqs' = snapshotReqs \ {r}
  /\ authError' = ReportError(error)
  /\ CountFailure(error)
  /\ IF error = NoError
     THEN setStatePersist(LoadedSnapshots(state, rows, nextUid), FALSE)
     ELSE UNCHANGED localVars
  /\ nextUid' = IF error = NoError THEN nextUid + Len(rows) ELSE nextUid
  /\ UNCHANGED <<mounted, sessionChecked, edits, authEvents, stateFlushes, txFlushes, history,
                 userId, stateReqs, txReqs, remoteVars, countVars>>
  /\ UNCHANGED <<routedVars, calcVars>>

\* loadTransactionsFromSupabase: select ... order by date descending
LoadTransactionsDone(r, error, rows) ==
  /\ r.op = "select"
  /\ txReqs' = txReqs \ {r}
  /\ authError' = ReportError(error)
  /\ CountFailure(error)
  /\ IF error = NoError
     THEN setStatePersist(LoadedTransactions(state, rows), TRUE)
     ELSE UNCHANGED localVars
  /\ UNCHANGED <<boundVars, userId, stateReqs, snapshotReqs, remoteVars, countVars>>
  /\ UNCHANGED <<routedVars, calcVars>>

----------------------------------------------------------------------------
(* Routed variant: AppState, the local cache and the Dashboard             *)

RoutedFieldNames == {"currency", "loans", "assets", "liabilities", "snapshots"}

Currencies == {"GBP", "USD"}

defaultState ==
  [currency |-> "GBP", loans |-> <<>>, assets |-> <<>>, liabilities |-> <<>>,
   snapshots |-> <<>>]

\* content of the storage key, as for the tabbed variant
RoutedRawAbsent == [kind |-> "absent", has |-> {}, val |-> defaultState]
RoutedRawEmpty == [kind |-> "empty", has |-> {}, val |-> defaultState]
RoutedRawMalformed == [kind |-> "malformed", has |-> {}, val |-> defaultState]
RoutedRawNull == [kind |-> "null", has |-> {}, val |-> defaultState]
RoutedRawJson(has, val) == [kind |-> "json", has |-> has, val |-> val]

\* saveState of app/storage: JSON.stringify of the full state
storageSaveState(s) == RoutedRawJson(RoutedFieldNames, s)

RoutedJSONparse(raw) ==
  [throws |-> raw.kind = "malformed",
   data |-> IF raw.kind = "json" THEN raw ELSE RoutedRawJson({}, defaultState)]

\* { ...defaultState, ...parsed }
RoutedMergeField(data, f) == IF f \in data.has THEN data.val[f] ELSE defaultState[f]

\* loadState of app/storage: getItem and JSON.parse both inside the try
storageLoadState(raw) ==
  IF Falsy(raw) THEN [threw |-> FALSE, value |-> defaultState]
  ELSE IF RoutedJSONparse(raw).throws THEN [threw |-> FALSE, value |-> defaultState]
  ELSE [threw |-> FALSE,
        value |-> [f \in RoutedFieldNames |-> RoutedMergeField(RoutedJSONparse(raw).data, f)]]

\* round2 of app/utils.  Number.EPSILON, added to counter the error of the
\* binary representation, is below the resolution of the fractions here and
\* moves none of them across a half.
round2(n) == Div[MathRound[Mul[n, Num(100)]], Num(100)]

\* the addends of sum of app/utils: isFinite(b) ? b : 0
FiniteOrZero(nums) == [i \in 1..Len(nums) |-> IF isFinite[nums[i]] THEN nums[i] ELSE Num(0)]

\* sum of app/utils
appSum(nums) == round2(SumSeq(FiniteOrZero(nums)))

\* monthlyEquivalent of app/utils
\* monthlyEquivalent with a week taken as a quarter of a month
monthlyEquivalentFourWeeks(amount, freq) ==
  IF ~isFinite[amount] THEN Num(0)
  ELSE IF freq = "weekly" THEN Mul[amount, Num(4)]
  ELSE IF freq = "fortnightly" THEN Div[Mul[amount, Num(26)], Num(12)]
  ELSE IF freq = "yearly" THEN Div[amount, Num(12)]
  ELSE amount

monthlyEquivalent(amount, freq) ==
  IF ~isFinite[amount] THEN Num(0)
  ELSE IF freq = "weekly" THEN Div[Mul[amount, Num(52)], Num(12)]
  ELSE IF freq = "fortnightly" THEN Div[Mul[amount, Num(26)], Num(12)]
  ELSE IF freq = "yearly" THEN Div[amount, Num(12)]
  ELSE amount

\* calcEmiMonthly with the annual rate taken as the rate of a month
calcEmiMonthlyAnnualRate(P, annualRate, n) ==
  IF ~Truthy[P] \/ ~Truthy[annualRate] \/ ~Truthy[n] THEN null
  ELSE IF LeqZero[P] \/ LeqZero[n] THEN null
  ELSE LET r == Div[annualRate, Num(100)]
           pow == Pow[Add[Num(1), r], n]
       IN IF IsZero[r] THEN round2(Div[P, n])
          ELSE IF Positive(P) /\ Positive(r) /\ WholeMonths(n)
               THEN round2OfEmiQuotient(P, r, n)
               ELSE round2(Div[Mul[Mul[P, r], pow], Sub[pow, Num(1)]])

\* calcEmiMonthly of app/utils; null when it cannot compute.  The quotient
\* of positive finite operands is computed on wide integers.
calcEmiMonthly(P, annualRate, n) ==
  IF ~Truthy[P] \/ ~Truthy[annualRate] \/ ~Truthy[n] THEN null
  ELSE IF LeqZero[P] \/ LeqZero[n] THEN null
  ELSE LET r == Div[Div[annualRate, Num(100)], Num(12)]
           pow == Pow[Add[Num(1), r], n]
       IN IF IsZero[r] THEN round2(Div[P, n])
          ELSE IF Positive(P) /\ Positive(r) /\ WholeMonths(n)
               THEN round2OfEmiQuotient(P, r, n)
               ELSE round2(Div[Mul[Mul[P, r], pow], Sub[pow, Num(1)]])

\* getLoanMonthlyEmi without the final round2
getLoanMonthlyEmiUnrounded(loan) ==
  monthlyEquivalent(
    IF loan.autoCalcEmi
    THEN Coalesce[calcEmiMonthly(loan.principal, loan.annualRate, loan.termMonths), Num(0)]
    ELSE Coalesce[loan.emi, Num(0)],
    loan.paymentFrequency)

\* getLoanMonthlyEmi of app/utils
getLoanMonthlyEmi(loan) ==
  round2(monthlyEquivalent(
           IF loan.autoCalcEmi
           THEN Coalesce[calcEmiMonthly(loan.principal, loan.annualRate, loan.termMonths),
                         Num(0)]
           ELSE Coalesce[loan.emi, Num(0)],
           loan.paymentFrequency))

MapLoanMonthlyEmi(loans) == [i \in 1..Len(loans) |-> getLoanMonthlyEmi(loans[i])]

\* the filter that lets every item through
InCurrencyUnfiltered(items, currency) == items

InCurrency(items, currency) == SelectSeq(items, LAMBDA x : x.currency = currency)

dashboardAssetsTotal(s) == appSum(MapValue(InCurrency(s.assets, s.currency)))

dashboardLiabilitiesTotal(s) ==
  appSum(<<appSum(MapOutstanding(InCurrency(s.liabilities, s.currency))),
           appSum(MapOutstandingBalance(InCurrency(s.loans, s.currency)))>>)

\* netWorth with the liabilities added, not subtracted
dashboardNetWorthAdded(s) ==
  appSum(<<dashboardAssetsTotal(s), dashboardLiabilitiesTotal(s)>>)

dashboardNetWorth(s) ==
  appSum(<<dashboardAssetsTotal(s), Neg[dashboardLiabilitiesTotal(s)]>>)

dashboardMonthlyEmiTotal(s) == appSum(MapLoanMonthlyEmi(InCurrency(s.loans, s.currency)))

\* Loans.monthlyEmiTotal: reduce((a, l) => a + getLoanMonthlyEmi(l), 0)
loansMonthlyEmiTotal(s) == SumSeq(MapLoanMonthlyEmi(InCurrency(s.loans, s.currency)))

\* the Snapshot of Dashboard.saveSnapshot, without createdAt
DashboardSnap(s, id, month) ==
  [id |-> id, month |-> month, currency |-> s.currency,
   assetsTotal |-> dashboardAssetsTotal(s),
   liabilitiesTotal |-> dashboardLiabilitiesTotal(s),
   netWorth |-> dashboardNetWorth(s)]

\* the list Dashboard.saveSnapshot stores: the snapshots of the month and
\* currency are filtered out and the new one is put first
DashboardUpdatedSnapshots(snapshots, snap) ==
  <<snap>> \o SelectSeq(snapshots,
                LAMBDA x : ~(x.month = snap.month /\ x.currency = snap.currency))

\* the list Assets.upsert stores
AssetsUpsert(assets, a) ==
  IF \E i \in 1..Len(assets) : assets[i].id = a.id
  THEN [i \in 1..Len(assets) |-> IF assets[i].id = a.id THEN a ELSE assets[i]]
  ELSE <<a>> \o assets

\* the list Assets.remove stores
AssetsRemove(assets, id) == SelectSeq(assets, LAMBDA x : x.id # id)

\* the list Liabilities.upsert stores
LiabilitiesUpsert(liabilities, l) ==
  IF \E i \in 1..Len(liabilities) : liabilities[i].id = l.id
  THEN [i \in 1..Len(liabilities) |-> IF liabilities[i].id = l.id THEN l ELSE liabilities[i]]
  ELSE <<l>> \o liabilities

\* the list Liabilities.remove stores
LiabilitiesRemove(liabilities, id) == SelectSeq(liabilities, LAMBDA x : x.id # id)

\* an upsert that puts the loan first whether or not the list holds its id
upsertLoanAlwaysFirst(loans, next) == <<next>> \o loans

\* the list Loans.upsertLoan stores
upsertLoan(loans, next) ==
  IF \E i \in 1..Len(loans) : loans[i].id = next.id
  THEN [i \in 1..Len(loans) |-> IF loans[i].id = next.id THEN next ELSE loans[i]]
  ELSE <<next>> \o loans

\* the list Loans.removeLoan stores
removeLoan(loans, id) == SelectSeq(loans, LAMBDA l : l.id # id)

\* the fields of a routed Loan that the totals read
RoutedLoan(currency, auto, P, annualRate, n, emi, freq, balance) ==
  [currency |-> currency, autoCalcEmi |-> auto, principal |-> P, annualRate |-> annualRate,
   termMonths |-> n, emi |-> emi, paymentFrequency |-> freq, outstandingBalance |-> balance]

\* the Loan LoanModal.save builds from the form: initial is <<>> for a new
\* loan and <<loan>> for the loan being edited, id is what uid() would return
LoanModalSave(initial, form, id, currency) ==
  [id |-> IF initial = <<>> THEN id ELSE initial[1].id,
   currency |-> currency,
   principal |-> IF form.autoCalc THEN OrElse[form.principal, undefined]
                 ELSE IF initial = <<>> THEN undefined ELSE initial[1].principal,
   annualRate |-> IF form.autoCalc THEN OrElse[form.rate, undefined]
                  ELSE IF initial = <<>> THEN undefined ELSE initial[1].annualRate,
   termMonths |-> IF form.autoCalc THEN OrElse[form.termMonths, undefined]
                  ELSE IF initial = <<>> THEN undefined ELSE initial[1].termMonths,
   emi |-> IF form.autoCalc THEN undefined ELSE OrElse[form.emi, Num(0)],
   paymentFrequency |-> form.paymentFrequency,
   outstandingBalance |-> OrElse[ToNumber[form.outstanding], Num(0)],
   autoCalcEmi |-> form.autoCalc]

\* the Liability LiabilityModal.save builds from the form
LiabilityModalSave(initial, outstanding, id, currency) ==
  [id |-> IF initial = <<>> THEN id ELSE initial[1].id,
   outstanding |-> OrElse[ToNumber[outstanding], Num(0)], currency |-> currency]

\* the Asset AssetModal.save builds from the form
AssetModalSave(initial, value, id, currency) ==
  [id |-> IF initial = <<>> THEN id ELSE initial[1].id,
   value |-> OrElse[ToNumber[value], Num(0)], currency |-> currency]

\* inputs of the UI
AssetValues == {Num(100), Num(250)}
LiabilityAmounts == {Num(10), Num(75)}
LoanForms ==
  {[autoCalc |-> TRUE, principal |-> Num(12000), rate |-> Num(12), termMonths |-> Num(2),
    emi |-> Num(0), paymentFrequency |-> "weekly", outstanding |-> Num(11000)],
   [autoCalc |-> FALSE, principal |-> Num(0), rate |-> Num(0), termMonths |-> Num(0),
    emi |-> Num(500), paymentFrequency |-> "monthly", outstanding |-> Num(40)]}

\* the entities a stored payload holds
StoredLoan ==
  [id |-> 85] @@ RoutedLoan("GBP", FALSE, undefined, undefined, undefined, Num(50), "monthly",
                           Num(40))
StoredLiability == [id |-> 86, outstanding |-> Num(10), currency |-> "USD"]
StoredAsset == [id |-> 90, value |-> Num(100), currency |-> "GBP"]
FirstRoutedUid == StoredAsset.id + 1

\* the element of a collection with an id, as the list an edit button passes
\* to the modal
WithId(items, id) == SelectSeq(items, LAMBDA x : x.id = id)

\* props.setState(next), then the effect useEffect(() => saveState(state), [state])
RoutedSetState(next) ==
  /\ routedMounted = "yes"
  /\ routedState' = next
  /\ routedStorage' = storageSaveState(next)
  /\ routedEdits' = routedEdits + 1
  /\ UNCHANGED <<routedMounted, syncVars, calcVars>>

\* the first render, useState(() => loadState()), and the first run of the
\* saveState effect
RoutedMount ==
  /\ routedMounted = "no"
  /\ routedMounted' = IF storageLoadState(routedStorage).threw THEN "crashed" ELSE "yes"
  /\ routedState' = IF storageLoadState(routedStorage).threw THEN routedState
                    ELSE storageLoadState(routedStorage).value
  /\ routedStorage' = IF storageLoadState(routedStorage).threw THEN routedStorage
                      ELSE storageSaveState(storageLoadState(routedStorage).value)
  /\ UNCHANGED <<routedUid, routedEdits, syncVars, calcVars>>

\* the currency select of the Dashboard
CurrencyChange(currency) ==
  /\ RoutedSetState([routedState EXCEPT !.currency = currency])
  /\ UNCHANGED routedUid

\* Dashboard.saveSnapshot
DashboardSaveSnapshot ==
  /\ RoutedSetState(
       [routedState EXCEPT !.snapshots =
          DashboardUpdatedSnapshots(routedState.snapshots,
                                    DashboardSnap(routedState, routedUid, ThisMonth))])
  /\ routedUid' = routedUid + 1

\* AssetModal.save of a new asset, then Assets.upsert
AssetAdd(value) ==
  /\ RoutedSetState(
       [routedState EXCEPT !.assets =
          AssetsUpsert(routedState.assets,
                       [id |-> routedUid, value |-> value, currency |-> routedState.currency])])
  /\ routedUid' = routedUid + 1

\* Assets.remove
AssetRemove(id) ==
  /\ \E i \in 1..Len(routedState.assets) : routedState.assets[i].id = id
  /\ RoutedSetState([routedState EXCEPT !.assets = AssetsRemove(routedState.assets, id)])
  /\ UNCHANGED routedUid

\* AssetModal.save of the asset being edited, then Assets.upsert
AssetEdit(id, value) ==
  /\ WithId(routedState.assets, id) # <<>>
  /\ RoutedSetState(
       [routedState EXCEPT !.assets =
          AssetsUpsert(routedState.assets,
                       AssetModalSave(WithId(routedState.assets, id), value, routedUid,
                                      routedState.currency))])
  /\ UNCHANGED routedUid

\* LiabilityModal.save of a new liability, then Liabilities.upsert
LiabilityAdd(outstanding) ==
  /\ RoutedSetState(
       [routedState EXCEPT !.liabilities =
          LiabilitiesUpsert(routedState.liabilities,
                            LiabilityModalSave(<<>>, outstanding, routedUid,
                                               routedState.currency))])
  /\ routedUid' = routedUid + 1

\* LiabilityModal.save of the liability being edited, then Liabilities.upsert
LiabilityEdit(id, outstanding) ==
  /\ WithId(routedState.liabilities, id) # <<>>
  /\ RoutedSetState(
       [routedState EXCEPT !.liabilities =
          LiabilitiesUpsert(routedState.liabilities,
                            LiabilityModalSave(WithId(routedState.liabilities, id),
                                               outstanding, routedUid,
                                               routedState.currency))])
  /\ UNCHANGED routedUid

\* Liabilities.remove
LiabilityRemove(id) ==
  /\ WithId(routedState.liabilities, id) # <<>>
  /\ RoutedSetState(
       [routedState EXCEPT !.liabilities = LiabilitiesRemove(routedState.liabilities, id)])
  /\ UNCHANGED routedUid

\* LoanModal.save of a new loan, then Loans.upsertLoan
LoanAdd(form) ==
  /\ RoutedSetState(
       [routedState EXCEPT !.loans =
          upsertLoan(routedState.loans,
                     LoanModalSave(<<>>, form, routedUid, routedState.currency))])
  /\ routedUid' = routedUid + 1

\* LoanModal.save of the loan being edited, then Loans.upsertLoan
LoanEdit(id, form) ==
  /\ WithId(routedState.loans, id) # <<>>
  /\ RoutedSetState(
       [routedState EXCEPT !.loans =
          upsertLoan(routedState.loans,
                     LoanModalSave(WithId(routedState.loans, id), form, routedUid,
                                   routedState.currency))])
  /\ UNCHANGED routedUid

\* Loans.removeLoan
LoanRemove(id) ==
  /\ WithId(routedState.loans, id) # <<>>
  /\ RoutedSetState([routedState EXCEPT !.loans = removeLoan(routedState.loans, id)])
  /\ UNCHANGED routedUid

----------------------------------------------------------------------------
(* Evaluations: a calculator applied to its arguments, and a page deriving *)
(* its totals from the AppState it renders                                 *)

\* the cadence tags of the two variants, and a tag neither of them knows
PaymentFrequency == {"monthly", "weekly", "fortnightly", "yearly"}
BudgetFrequency == {"monthly", "weekly", "annual"}
CadenceTags == PaymentFrequency \cup BudgetFrequency \cup {"quarterly"}

\* amounts: whole, negative, with a third decimal, and not finite
Amounts ==
  {Num(0), Num(100), Num(500), Num(-30), Fraction[10005, 1000], NaN, Infinity, NegInfinity}

\* the inputs of the calculators; undefined is the absent field
Principals == {undefined, Num(0), Num(-5), Num(100), Num(12000)}
AnnualRates == {undefined, Num(0), Num(12), Num(1200)}
TermsInMonths == {undefined, Num(0), Num(-1), Num(1), Num(2)}
ManualEmis == {undefined, Num(0), Num(500), Fraction[10005, 1000], Infinity}

\* loans of the routed variant, by the fields getLoanMonthlyEmi reads: auto
\* loans with and without a manual EMI left in place, and manual loans
LoanSamples ==
  [autoCalcEmi : {TRUE}, principal : Principals, annualRate : AnnualRates,
   termMonths : TermsInMonths, emi : {undefined, Num(500)}, paymentFrequency : CadenceTags]
  \cup
  [autoCalcEmi : {FALSE}, principal : {undefined}, annualRate : {undefined},
   termMonths : {undefined}, emi : ManualEmis, paymentFrequency : CadenceTags]

\* loans of the tabbed variant, by the fields calculateEmi and loansMonthlyEmi read
TabbedLoanSamples ==
  [autoCalculate : {TRUE}, principal : Principals, annualRate : AnnualRates,
   termMonths : TermsInMonths, emi : {undefined, Num(500)}]
  \cup
  [autoCalculate : {FALSE}, principal : {Num(0)}, annualRate : {Num(0)},
   termMonths : {Num(0)}, emi : ManualEmis]

\* loans of a year: 100000 at 10% and 12000 at 12%
EmiExamples ==
  {[principal |-> Num(100000), annualRate |-> Num(10), termMonths |-> Num(12)],
   [principal |-> Num(12000), annualRate |-> Num(12), termMonths |-> Num(12)]}

Evaluated(fn, args, result) == [fn |-> fn, args |-> args, result |-> result]

MonthlyEquivalentCall ==
  /\ \E amount \in Amounts, freq \in CadenceTags :
       call' = Evaluated("monthlyEquivalent", [amount |-> amount, frequency |-> freq],
                         monthlyEquivalent(amount, freq))
  /\ UNCHANGED <<syncVars, routedVars>>

ToMonthlyCall ==
  /\ \E item \in [amount : Amounts, frequency : CadenceTags] :
       call' = Evaluated("toMonthly", item, toMonthly(item))
  /\ UNCHANGED <<syncVars, routedVars>>

CalcEmiMonthlyCall ==
  /\ \E args \in [principal : Principals, annualRate : AnnualRates,
                   termMonths : TermsInMonths] \cup EmiExamples :
       call' = Evaluated("calcEmiMonthly", args,
                         calcEmiMonthly(args.principal, args.annualRate, args.termMonths))
  /\ UNCHANGED <<syncVars, routedVars>>

CalculateEmiCall ==
  /\ \E loan \in TabbedLoanSamples :
       call' = Evaluated("calculateEmi", loan, calculateEmi(loan))
  /\ UNCHANGED <<syncVars, routedVars>>

GetLoanMonthlyEmiCall ==
  /\ \E loan \in LoanSamples :
       call' = Evaluated("getLoanMonthlyEmi", loan, getLoanMonthlyEmi(loan))
  /\ UNCHANGED <<syncVars, routedVars>>

\* the Dashboard renders routedState
DashboardRender ==
  /\ routedMounted = "yes"
  /\ call' = Evaluated("Dashboard", routedState,
                       [assetsTotal |-> dashboardAssetsTotal(routedState),
                        liabilitiesTotal |-> dashboardLiabilitiesTotal(routedState),
                        netWorth |-> dashboardNetWorth(routedState),
                        monthlyEmiTotal |-> dashboardMonthlyEmiTotal(routedState)])
  /\ UNCHANGED <<syncVars, routedVars>>

\* the Loans page renders routedState: the total it shows, round2(monthlyEmiTotal),
\* and the Monthly EMI cell of each row
LoansRender ==
  /\ routedMounted = "yes"
  /\ call' = Evaluated("Loans", routedState,
                       [monthlyEmiTotal |-> round2(loansMonthlyEmiTotal(routedState)),
                        cells |-> MapLoanMonthlyEmi(
                                    InCurrency(routedState.loans, routedState.currency))])
  /\ UNCHANGED <<syncVars, routedVars>>

\* the tabbed App renders state with the Budget tab open: the values of the
\* header and of NetWorthView, and the totals BudgetView derives from its props
AppRender ==
  /\ mounted = "yes"
  /\ call' = Evaluated("App", state,
                       [loansMonthlyEmi |-> loansMonthlyEmi(state),
                        assetsTotal |-> assetsTotal(state),
                        liabilitiesTotal |-> liabilitiesTotal(state),
                        netWorth |-> netWorth(state),
                        budgetMonthlyIncome |-> budgetMonthlyIncome(state),
                        budgetMonthlyExpense |-> budgetMonthlyExpense(state),
                        budgetLeftOver |-> budgetLeftOver(state),
                        incomeTotal |-> incomeTotal(state.budget),
                        expenseTotal |-> expenseTotal(state.budget),
                        leftOver |-> leftOver(state.budget, loansMonthlyEmi(state))])
  /\ UNCHANGED <<syncVars, routedVars>>

----------------------------------------------------------------------------
(* Initial states                                                          *)

\* what the storage key of the tabbed variant holds when the sync scenarios
\* start: the payload of an older build that knew only the assets
InitialCaches ==
  {RawJson({"assets"}, [emptyState EXCEPT !.assets = <<[value |-> Num(100)]>>])}

\* identity A's rows left by another device: the state blob was stored
\* before the snapshot of last month was captured
SeedState ==
  [emptyState EXCEPT !.assets = <<[value |-> Num(100)]>>, !.expenseTransactions = <<SeedTx>>]

SeedSnapshotRow ==
  [user_id |-> "A", month |-> LastMonth, assets_total |-> Num(100),
   liabilities_total |-> Num(0), net_worth |-> Num(100), budget_income |-> Num(0),
   budget_expense |-> Num(0), loans_emi |-> Num(0)]

\* stored AppStates of the tabbed variant: every field non-empty; the
\* snapshot list holds two entries of this month, or one of each month
StoredSnapshotLists ==
  {<<defaultSnapshot(81, ThisMonth, Num(1), Num(0)),
     defaultSnapshot(82, ThisMonth, Num(2), Num(0))>>,
   <<defaultSnapshot(83, LastMonth, Num(100), Num(0)),
     defaultSnapshot(84, ThisMonth, Num(1), Num(0))>>}

StoredState(snapshots) ==
  [loans |-> <<[outstandingBalance |-> Num(40)]>>, assets |-> <<[value |-> Num(100)]>>,
   liabilities |-> <<[outstanding |-> Num(10)]>>,
   budget |-> [income |-> <<[amount |-> Num(3000)]>>, expenses |-> <<>>],
   expenseTransactions |-> <<SeedTx>>, snapshots |-> snapshots]

\* what the storage key of the tabbed variant may hold
StoredPayloads ==
  {RawAbsent, RawEmpty, RawMalformed, RawNull} \cup
  {RawJson(has, StoredState(l)) : has \in SUBSET FieldNames, l \in StoredSnapshotLists}

RoutedSnap(id, month, currency, assets) ==
  [id |-> id, month |-> month, currency |-> currency, assetsTotal |-> assets,
   liabilitiesTotal |-> Num(0), netWorth |-> assets]

RoutedStoredSnapshotLists ==
  {<<RoutedSnap(71, ThisMonth, "GBP", Num(1)), RoutedSnap(72, ThisMonth, "GBP", Num(2)),
     RoutedSnap(73, ThisMonth, "USD", Num(3))>>,
   <<RoutedSnap(74, LastMonth, "GBP", Num(100))>>}

RoutedStoredState(snapshots) ==
  [currency |-> "USD", loans |-> <<StoredLoan>>, assets |-> <<StoredAsset>>,
   liabilities |-> <<StoredLiability>>, snapshots |-> snapshots]

\* what the storage key of the routed variant may hold
RoutedStoredPayloads ==
  {RoutedRawAbsent, RoutedRawEmpty, RoutedRawMalformed, RoutedRawNull} \cup
  {RoutedRawJson(has, RoutedStoredState(l)) :
     has \in SUBSET RoutedFieldNames, l \in RoutedStoredSnapshotLists}

\* Stored AppStates whose amounts are not whole: a third decimal, amounts
\* below a hundredth, and Infinity, which JSON text such as 1e999 parses to

RoutedLedgerLoans ==
  {<<>>,
   <<RoutedLoan("GBP", FALSE, undefined, undefined, undefined, Num(500), "weekly",
                Fraction[1000004, 1000]),
     RoutedLoan("GBP", TRUE, Num(12000), Num(12), Num(2), undefined, "monthly", Num(11000))>>,
   <<RoutedLoan("USD", TRUE, undefined, Num(12), Num(2), undefined, "weekly", Infinity),
     RoutedLoan("USD", FALSE, undefined, undefined, undefined, Fraction[10005, 1000],
                "fortnightly", Num(40)),
     RoutedLoan("GBP", TRUE, Num(100), Num(1200), Num(2), undefined, "yearly",
                Fraction[4, 1000])>>}

RoutedLedgerAssets ==
  {<<>>,
   <<[value |-> Fraction[100005, 1000], currency |-> "GBP"],
     [value |-> Num(250), currency |-> "USD"]>>,
   <<[value |-> Infinity, currency |-> "GBP"], [value |-> Fraction[4, 1000], currency |-> "GBP"],
     [value |-> Fraction[4, 1000], currency |-> "GBP"], [value |-> Num(-30), currency |-> "USD"]>>}

RoutedLedgerLiabilities ==
  {<<>>,
   <<[outstanding |-> Fraction[4, 1000], currency |-> "GBP"],
     [outstanding |-> Num(10), currency |-> "USD"]>>,
   <<[outstanding |-> Fraction[2505, 1000], currency |-> "USD"],
     [outstanding |-> NegInfinity, currency |-> "USD"]>>}

RoutedLedgers ==
  {[currency |-> c, loans |-> l, assets |-> a, liabilities |-> b, snapshots |-> <<>>] :
     c \in Currencies, l \in RoutedLedgerLoans, a \in RoutedLedgerAssets,
     b \in RoutedLedgerLiabilities}

TabbedLedgerLoans ==
  {<<>>,
   <<TabbedLoan(FALSE, Num(0), Num(0), Num(0), Num(500), Fraction[1000004, 1000]),
     TabbedLoan(TRUE, Num(12000), Num(12), Num(2), Num(0), Num(11000))>>,
   <<TabbedLoan(TRUE, Num(100), Num(1200), Num(2), Num(0), Num(40)),
     TabbedLoan(FALSE, Num(0), Num(0), Num(0), Fraction[10005, 1000], Infinity)>>,
   <<TabbedLoan(TRUE, undefined, Num(12), Num(2), undefined, Num(40))>>}

TabbedLedgerAssets ==
  {<<>>,
   <<[value |-> Fraction[100005, 1000]], [value |-> Num(250)]>>,
   <<[value |-> Infinity], [value |-> Fraction[4, 1000]]>>}

TabbedLedgerLiabilities ==
  {<<>>, <<[outstanding |-> Fraction[4, 1000]], [outstanding |-> Num(10)]>>}

TabbedLedgerBudgets ==
  {emptyBudget,
   [income |-> <<BudgetItem(Num(3000), "monthly"), BudgetItem(Num(100), "weekly")>>,
    expenses |-> <<BudgetItem(Num(1200), "annual"), BudgetItem(Fraction[10005, 1000], "monthly")>>],
   [income |-> <<BudgetItem(Infinity, "monthly")>>,
    expenses |-> <<BudgetItem(Infinity, "weekly"), BudgetItem(Num(50), "fortnightly")>>]}

TabbedLedgers ==
  {[loans |-> l, assets |-> a, liabilities |-> b, budget |-> g,
    expenseTransactions |-> <<>>, snapshots |-> <<>>] :
     l \in TabbedLedgerLoans, a \in TabbedLedgerAssets, b \in TabbedLedgerLiabilities,
     g \in TabbedLedgerBudgets}

\* the tabbed variant before its first render, with identity A's rows in
\* the remote store
InitTabbed(caches) ==
  /\ mounted = "no"
  /\ localStorage \in caches
  /\ state = emptyState
  /\ userId = NoUser
  /\ authError = NoError
  /\ stateTimer = {} /\ txTimer = {}
  /\ stateReqs = {} /\ snapshotReqs = {} /\ txReqs = {}
  /\ user_state = {[user_id |-> "A", state |-> SeedState]}
  /\ monthly_snapshots = {SeedSnapshotRow}
  /\ expense_transactions = TxPayload("A", <<SeedTx>>)
  /\ sessionChecked = FALSE
  /\ nextUid = FirstFreshUid
  /\ stateReqCount = 0 /\ snapshotReqCount = 0 /\ txReqCount = 0
  /\ edits = 0 /\ authEvents = 0 /\ failures = 0
  /\ stateFlushes = 0 /\ txFlushes = 0
  /\ editsAtFailure = -1
  /\ burst = 0
  /\ history = [lastCapture |-> <<>>, removed |-> {},
                enteredBy |-> {[id |-> SeedTx.id, userId |-> "A"]}]

\* the routed variant before its first render
InitRouted(caches) ==
  /\ routedMounted = "no"
  /\ routedStorage \in caches
  /\ routedState = defaultState
  /\ routedUid = FirstRoutedUid
  /\ routedEdits = 0

----------------------------------------------------------------------------
(* Steps, each within the bounds of a run                                  *)

Session == \E u \in {StoredSessionUser, NoUser} : GetSessionResolved(u)

AuthChange(maxAuthEvents) ==
  /\ authEvents < maxAuthEvents
  /\ \E u \in Users \cup {NoUser} : AuthStateChange(u)

\* a sign-out, or the sign-in that follows one
SwitchIdentity(maxAuthEvents) ==
  /\ authEvents < maxAuthEvents
  /\ \E u \in (Users \cup {NoUser}) \ {userId} : AuthStateChange(u)

EditAssets(maxEdits) ==
  /\ edits < maxEdits
  /\ \E next \in AssetInputs : AssetsChange(next)

EditTransactions(maxEdits) ==
  \/ /\ edits < maxEdits
     /\ \E d \in TxDates, t \in TxDescriptions, a \in TxAmounts : addTransaction(d, t, a)
  \/ /\ edits < maxEdits
     /\ \E id \in SeedTx.id..(nextUid - 1) : removeTransaction(id)

EditLoans(maxEdits) ==
  /\ edits < maxEdits
  /\ \E next \in LoanInputs : LoansChange(next)

EditLiabilities(maxEdits) ==
  /\ edits < maxEdits
  /\ \E next \in LiabilityInputs : LiabilitiesChange(next)

AddEntity(maxEdits) ==
  \/ edits < maxEdits /\ addLoan
  \/ edits < maxEdits /\ addAsset
  \/ edits < maxEdits /\ addLiability

EditBudget(maxEdits) ==
  /\ edits < maxEdits
  /\ \E next \in BudgetInputs : handleBudgetChange(next)

CaptureSnapshot(maxEdits) ==
  /\ edits < maxEdits
  /\ saveSnapshot

StateLane(maxFlushes, maxFailures) ==
  \/ stateFlushes < maxFlushes /\ StateTimerFire
  \/ \E r \in stateReqs, e \in Outcomes(StateError, maxFailures) : StateUpsertDone(r, e)

TxLane(maxFlushes, maxFailures) ==
  \/ txFlushes < maxFlushes /\ TxTimerFire
  \/ \E r \in txReqs, e \in Outcomes(TxError, maxFailures) : TxDeleteAllDone(r, e)
  \/ \E r \in txReqs, e \in Outcomes(TxError, maxFailures) \cup {RlsError} : TxUpsertDone(r, e)
  \/ \E r \in txReqs, e \in Outcomes(TxError, maxFailures) : TxPruneDone(r, e)

SnapshotLane(maxFailures) ==
  \E r \in snapshotReqs, e \in Outcomes(SnapshotError, maxFailures) : SnapshotUpsertDone(r, e)

Loads(maxFailures) ==
  \/ \E r \in stateReqs, e \in Outcomes(StateError, maxFailures) : LoadStateDone(r, e)
  \/ \E r \in snapshotReqs, e \in Outcomes(SnapshotError, maxFailures) :
       \E rows \in OrderedByMonthDesc(RowsOf(monthly_snapshots, r.userId)) :
         LoadSnapshotsDone(r, e, rows)
  \/ \E r \in txReqs, e \in Outcomes(TxError, maxFailures) :
       \E rows \in OrderedByDateDesc(RowsOf(expense_transactions, r.userId)) :
         LoadTransactionsDone(r, e, rows)

RoutedEdit(maxEdits) ==
  \/ /\ routedEdits < maxEdits
     /\ \E c \in Currencies \ {routedState.currency} : CurrencyChange(c)
  \/ routedEdits < maxEdits /\ DashboardSaveSnapshot
  \/ /\ routedEdits < maxEdits
     /\ \E v \in AssetValues : AssetAdd(v)
  \/ /\ routedEdits < maxEdits
     /\ \E id \in StoredAsset.id..(routedUid - 1) : AssetRemove(id)

\* the ids the entities of a routed collection may carry
RoutedIds == {StoredLoan.id, StoredLiability.id} \cup (StoredAsset.id..(routedUid - 1))

RoutedCollectionsEdit(maxEdits) ==
  \/ /\ routedEdits < maxEdits
     /\ \E id \in RoutedIds, v \in AssetValues : AssetEdit(id, v)
  \/ /\ routedEdits < maxEdits
     /\ \E v \in LiabilityAmounts : LiabilityAdd(v)
  \/ /\ routedEdits < maxEdits
     /\ \E id \in RoutedIds, v \in LiabilityAmounts : LiabilityEdit(id, v)
  \/ /\ routedEdits < maxEdits
     /\ \E id \in RoutedIds : LiabilityRemove(id)
  \/ /\ routedEdits < maxEdits
     /\ \E form \in LoanForms : LoanAdd(form)
  \/ /\ routedEdits < maxEdits
     /\ \E id \in RoutedIds, form \in LoanForms : LoanEdit(id, form)
  \/ /\ routedEdits < maxEdits
     /\ \E id \in RoutedIds : LoanRemove(id)

----------------------------------------------------------------------------
(* Specifications                                                          *)

vars == <<syncVars, routedVars, calcVars>>

\* the tabbed variant with a session: edits, the state lane and the loads
Init == InitTabbed(InitialCaches) /\ InitRouted({RoutedRawAbsent}) /\ call = NoCall

Next ==
  \/ Mount
  \/ Session
  \/ EditAssets(MaxEdits) \/ EditTransactions(MaxEdits) \/ CaptureSnapshot(MaxEdits)
  \/ StateLane(MaxFlushes, MaxFailures)
  \/ Loads(MaxFailures)

Spec == Init /\ [][Next]_vars

\* both variants without a session, started from every stored payload
InitLocal ==
  \/ InitTabbed(StoredPayloads) /\ InitRouted({RoutedRawAbsent}) /\ call = NoCall
  \/ InitTabbed({RawAbsent}) /\ InitRouted(RoutedStoredPayloads) /\ call = NoCall

NextLocal ==
  \/ Mount
  \/ EditAssets(LocalMaxEdits) \/ EditTransactions(LocalMaxEdits)
  \/ CaptureSnapshot(LocalMaxEdits)
  \/ RoutedMount
  \/ RoutedEdit(RoutedMaxEdits)

SpecLocal == InitLocal /\ [][NextLocal]_vars

\* the tabbed variant with a session: edits and the two debounced lanes
NextDebounce ==
  \/ Mount
  \/ Session
  \/ EditAssets(MaxEdits) \/ EditTransactions(MaxEdits) \/ CaptureSnapshot(MaxEdits)
  \/ StateLane(MaxFlushes, MaxFailures)
  \/ TxLane(MaxFlushes, MaxFailures)

SpecDebounce == Init /\ [][NextDebounce]_vars

\* the tabbed variant with a session: transaction edits, the transaction
\* lane and the loads
NextTx ==
  \/ Mount
  \/ Session
  \/ EditTransactions(TxMaxEdits)
  \/ TxLane(TxMaxFlushes, MaxFailures)
  \/ Loads(MaxFailures)

SpecTx == Init /\ [][NextTx]_vars

\* the tabbed variant with sign-in and sign-out: edits and the loads
NextLoads ==
  \/ Mount
  \/ Session
  \/ AuthChange(MaxAuthEvents)
  \/ EditAssets(MaxEdits) \/ EditTransactions(MaxEdits) \/ CaptureSnapshot(MaxEdits)
  \/ Loads(MaxFailures)

SpecLoads == Init /\ [][NextLoads]_vars

\* every state change of both variants: edits, captures and the loads
NextPersist ==
  \/ Mount
  \/ Session
  \/ EditAssets(MaxEdits) \/ EditTransactions(MaxEdits) \/ CaptureSnapshot(MaxEdits)
  \/ Loads(MaxFailures)
  \/ RoutedMount
  \/ RoutedEdit(RoutedMaxEdits)

SpecPersist == Init /\ [][NextPersist]_vars

\* the tabbed variant with a session and every remote request
NextRemote ==
  \/ Mount
  \/ Session
  \/ EditAssets(RemoteMaxEdits) \/ EditTransactions(RemoteMaxEdits)
  \/ CaptureSnapshot(RemoteMaxEdits)
  \/ StateLane(RemoteMaxFlushes, MaxFailures)
  \/ TxLane(RemoteMaxFlushes, MaxFailures)
  \/ SnapshotLane(MaxFailures)
  \/ Loads(MaxFailures)

SpecRemote == Init /\ [][NextRemote]_vars

\* the calculators applied to their arguments, one call in a run
NextCalc ==
  \/ call = NoCall /\ MonthlyEquivalentCall
  \/ call = NoCall /\ ToMonthlyCall
  \/ call = NoCall /\ CalcEmiMonthlyCall
  \/ call = NoCall /\ CalculateEmiCall
  \/ call = NoCall /\ GetLoanMonthlyEmiCall

SpecCalc == Init /\ [][NextCalc]_vars

\* both variants without a session, started from the stored ledgers: the
\* pages render, and the display currency changes
InitTotals ==
  \/ /\ InitTabbed({saveState(l) : l \in TabbedLedgers})
     /\ InitRouted({RoutedRawAbsent})
     /\ call = NoCall
  \/ /\ InitTabbed({RawAbsent})
     /\ InitRouted({storageSaveState(l) : l \in RoutedLedgers})
     /\ call = NoCall

NextTotals ==
  \/ Mount
  \/ RoutedMount
  \/ /\ routedEdits < RoutedMaxEdits
     /\ \E c \in Currencies \ {routedState.currency} : CurrencyChange(c)
  \/ DashboardRender
  \/ LoansRender
  \/ AppRender

SpecTotals == InitTotals /\ [][NextTotals]_vars

\* a stored AppState with loans, assets, liabilities and budget items
SnapshotLedger ==
  [loans |-> <<TabbedLoan(FALSE, Num(0), Num(0), Num(0), Num(500), Num(40))>>,
   assets |-> <<[value |-> Num(100)]>>, liabilities |-> <<[outstanding |-> Num(10)]>>,
   budget |-> [income |-> <<BudgetItem(Num(3000), "monthly")>>,
               expenses |-> <<BudgetItem(Num(1200), "annual")>>],
   expenseTransactions |-> <<>>, snapshots |-> <<>>]

\* the tabbed variant with a session: captures, the edits between them, the
\* snapshot upserts and the loads
InitSnapshots ==
  InitTabbed({saveState(SnapshotLedger)}) /\ InitRouted({RoutedRawAbsent}) /\ call = NoCall

NextSnapshots ==
  \/ Mount
  \/ Session
  \/ EditAssets(SnapMaxEdits) \/ EditBudget(SnapMaxEdits)
  \/ CaptureSnapshot(SnapMaxEdits)
  \/ SnapshotLane(MaxFailures)
  \/ Loads(MaxFailures)

SpecSnapshots == InitSnapshots /\ [][NextSnapshots]_vars

\* the tabbed variant with sign-out and sign-in: transaction edits, the two
\* debounced lanes and the loads
NextSwitch ==
  \/ Mount
  \/ Session
  \/ SwitchIdentity(SwitchMaxAuthEvents)
  \/ EditTransactions(SwitchMaxEdits)
  \/ StateLane(SwitchMaxFlushes, SwitchMaxFailures)
  \/ TxLane(SwitchMaxFlushes, SwitchMaxFailures)
  \/ Loads(SwitchMaxFailures)

SpecSwitch == Init /\ [][NextSwitch]_vars

\* both variants without a session, started from a stored AppState or from
\* nothing: every edit handler
InitEdits ==
  \/ /\ InitTabbed({RawAbsent} \cup {saveState(StoredState(l)) : l \in StoredSnapshotLists})
     /\ InitRouted({RoutedRawAbsent})
     /\ call = NoCall
  \/ /\ InitTabbed({RawAbsent})
     /\ InitRouted({storageSaveState(RoutedStoredState(l)) : l \in RoutedStoredSnapshotLists})
     /\ call = NoCall

\* a run renders one of the two variants
NextEdits ==
  \/ routedMounted = "no" /\ Mount
  \/ EditAssets(EditsMaxEdits) \/ EditLoans(EditsMaxEdits) \/ EditLiabilities(EditsMaxEdits)
  \/ EditBudget(EditsMaxEdits) \/ AddEntity(EditsMaxEdits)
  \/ EditTransactions(EditsMaxEdits)
  \/ CaptureSnapshot(EditsMaxEdits)
  \/ mounted = "no" /\ RoutedMount
  \/ RoutedEdit(EditsMaxEdits)
  \/ RoutedCollectionsEdit(EditsMaxEdits)

SpecEdits == InitEdits /\ [][NextEdits]_vars

----------------------------------------------------------------------------
(* Properties of the local cache and the snapshot managers (SpecLocal)     *)

\* the snapshots of a month in a list
OfMonth(snapshots, month) == {i \in 1..Len(snapshots) : snapshots[i].month = month}

OfMonthAndCurrency(snapshots, month, currency) ==
  {i \in 1..Len(snapshots) :
     snapshots[i].month = month /\ snapshots[i].currency = currency}

\* C1: after saveSnapshot, whatever the prior list, the list holds exactly
\* one snapshot of the captured month (and currency, in the routed variant),
\* and it carries the totals computed at this capture.
C1_OneSnapshotPerMonth ==
  [][/\ saveSnapshot =>
          /\ Cardinality(OfMonth(state'.snapshots, ThisMonth)) = 1
          /\ \A i \in OfMonth(state'.snapshots, ThisMonth) :
               state'.snapshots[i] =
                 defaultSnapshot(nextUid, ThisMonth, assetsTotal(state),
                                 liabilitiesTotal(state))
     /\ DashboardSaveSnapshot =>
          /\ Cardinality(OfMonthAndCurrency(routedState'.snapshots, ThisMonth,
                                            routedState.currency)) = 1
          /\ \A i \in OfMonthAndCurrency(routedState'.snapshots, ThisMonth,
                                         routedState.currency) :
               /\ routedState'.snapshots[i].assetsTotal = dashboardAssetsTotal(routedState)
               /\ routedState'.snapshots[i].liabilitiesTotal =
                    dashboardLiabilitiesTotal(routedState)
               /\ routedState'.snapshots[i].netWorth = dashboardNetWorth(routedState)]_vars

\* C8: loadState of a stored object that holds any subset of the top-level
\* fields returns a full AppState: the stored fields as stored, every other
\* field with its empty default.
C8_LoadMergesDefaults ==
  [][/\ (Mount /\ localStorage.kind = "json") =>
          /\ mounted' = "yes"
          /\ DOMAIN state' = FieldNames
          /\ \A f \in FieldNames :
               state'[f] = IF f \in localStorage.has THEN localStorage.val[f]
                           ELSE emptyState[f]
     /\ (RoutedMount /\ routedStorage.kind = "json") =>
          /\ routedMounted' = "yes"
          /\ DOMAIN routedState' = RoutedFieldNames
          /\ \A f \in RoutedFieldNames :
               routedState'[f] = IF f \in routedStorage.has THEN routedStorage.val[f]
                                 ELSE defaultState[f]]_vars

\* the payload that holds one asset and nothing else has been loaded
C8_Witness ==
  /\ mounted = "yes"
  /\ edits = 0
  /\ localStorage.kind = "json"
  /\ localStorage.has = {"assets"}
  /\ state.assets = <<[value |-> Num(100)]>>
  /\ state.loans = <<>> /\ state.liabilities = <<>> /\ state.snapshots = <<>>
  /\ state.expenseTransactions = <<>> /\ state.budget = emptyBudget

\* C9: when the storage key is absent or its content cannot be parsed,
\* loadState returns exactly the default state and no exception leaves it.
C9_LoadRecovers ==
  [][/\ (Mount /\ localStorage.kind \in {"absent", "empty", "malformed"}) =>
          mounted' = "yes" /\ state' = emptyState
     /\ (RoutedMount /\ routedStorage.kind \in {"absent", "empty", "malformed"}) =>
          routedMounted' = "yes" /\ routedState' = defaultState]_vars

\* the tabbed variant has rendered from an unparseable cache
C9_Witness ==
  /\ mounted = "yes"
  /\ edits = 0
  /\ localStorage = RawMalformed
  /\ state = emptyState

----------------------------------------------------------------------------
(* Properties of the debounced lanes (SpecDebounce, Spec, SpecTx)          *)

Upserts(reqs) == {r \in reqs : r.op = "upsert"}
Selects(reqs) == {r \in reqs : r.op = "select"}

\* C2: each lane has at most one pending timer at every moment; a state
\* change within the window issues no upsert of its own and restarts the
\* timer with the new state, and the firing of the timer issues exactly one
\* user_state upsert, which carries the state of the last change.
C2_DebounceCoalesces ==
  /\ [](/\ Cardinality(stateTimer) <= 1
        /\ Cardinality(txTimer) <= 1
        /\ \A t \in stateTimer : t.state = state /\ t.userId = userId
        /\ \A t \in txTimer : t.items = state.expenseTransactions /\ t.userId = userId)
  /\ [][/\ StateTimerFire =>
             /\ stateReqs' \ stateReqs =
                  {StateReq("upsert", userId, stateReqCount + 1, state)}
             /\ stateTimer' = {}
        /\ (state' # state) => Upserts(stateReqs') \subseteq Upserts(stateReqs)]_vars

\* two edits arrived while the timer of the session acquisition was pending,
\* and the one firing issued the one upsert, with the state of the last edit
C2_Witness ==
  /\ burst >= 3
  /\ edits = 2
  /\ stateFlushes = 1
  /\ stateTimer = {}
  /\ stateReqCount = 2
  /\ \E r \in stateReqs : r.op = "upsert" /\ r.state = state /\ r.userId = userId

\* a session is active, its three reads have been answered and no request
\* has failed
LoadsCompleted ==
  /\ mounted = "yes"
  /\ userId # NoUser
  /\ failures = 0
  /\ Selects(stateReqs) = {} /\ Selects(snapshotReqs) = {} /\ Selects(txReqs) = {}

\* nothing will change the AppState or user_state any more: no timer of the
\* state lane is pending and every user_state request has been answered
StateLaneQuiet == LoadsCompleted /\ stateTimer = {} /\ stateReqs = {}

\* C3: once edits have stopped and every issued user_state upsert has
\* completed without error, the remote user_state blob of the identity
\* equals the local AppState.
C3_LatestStateLands ==
  (StateLaneQuiet /\ stateFlushes >= 1) =>
    \E row \in user_state : row.user_id = userId /\ row.state = state

\* C5: when a flush of the transaction lane has run to completion without
\* error (its delete-all, or its upsert and then its prune), the rows of the
\* identity in expense_transactions are exactly the transactions the flush
\* was given.
C5_FlushMirrorsLocalSet ==
  [][\A r \in txReqs :
       (TxDeleteAllDone(r, NoError) \/ TxPruneDone(r, NoError)) =>
         RowsOf(expense_transactions', r.userId) = TxPayload(r.userId, r.items)]_vars

\* C6: the flush of an empty transaction set with a session issues one
\* delete of all rows of the identity and no upsert, and that delete leaves
\* the identity without rows.
C6_EmptySetDeletesAll ==
  [][/\ \A t \in txTimer :
          (TxTimerFire /\ Len(t.items) = 0) =>
            /\ Len(state.expenseTransactions) = 0
            /\ txReqs' \ txReqs = {TxReq("deleteAll", userId, txReqCount + 1, <<>>)}
     /\ \A r \in txReqs :
          TxDeleteAllDone(r, NoError) => RowsOf(expense_transactions', r.userId) = {}]_vars

\* the loaded transaction was removed and the flush that followed issued the
\* delete-all
C6_Witness ==
  /\ userId = "A"
  /\ edits = 1
  /\ nextUid = FirstFreshUid
  /\ Len(state.expenseTransactions) = 0
  /\ txFlushes = 1
  /\ txTimer = {}
  /\ \E r \in txReqs : r.op = "deleteAll" /\ r.userId = "A"

----------------------------------------------------------------------------
(* Properties of the loads and of the cache in a session                   *)

Slices == {"snapshots", "expenseTransactions"}

\* C4: once the three reads of a session acquisition have completed without
\* error, in any order, and nothing was edited meanwhile, the snapshots are
\* the remote snapshot rows, the transactions are the remote transaction
\* rows, and every other field is the field of the remote state blob.
C4_LoadsReplaceSlices ==
  (LoadsCompleted /\ edits = 0) =>
    /\ \E rows \in OrderedByMonthDesc(RowsOf(monthly_snapshots, userId)) :
         state.snapshots = MappedSnapshots(rows, nextUid - Len(rows))
    /\ \E rows \in OrderedByDateDesc(RowsOf(expense_transactions, userId)) :
         state.expenseTransactions = MappedTransactions(rows)
    /\ \A row \in RowsOf(user_state, userId) :
         \A f \in FieldNames \ Slices : state[f] = row.state[f]

\* C7: every step that changes the in-memory AppState or the cache, in
\* either variant, leaves in the cache the serialization of the AppState
\* that step produced.
C7_CacheFollowsState ==
  [][/\ (state' # state \/ localStorage' # localStorage) =>
          (mounted = "yes" => localStorage' = saveState(state'))
     /\ (routedState' # routedState \/ routedStorage' # routedStorage) =>
          routedStorage' = storageSaveState(routedState')]_vars

\* after an edit and the three loads of the session, both variants hold a
\* changed state and its serialization
C7_Witness ==
  /\ LoadsCompleted
  /\ edits >= 1
  /\ state.snapshots # <<>>
  /\ localStorage = saveState(state)
  /\ routedEdits >= 1
  /\ routedStorage = storageSaveState(routedState)

----------------------------------------------------------------------------
(* Properties of remote failures (SpecRemote)                              *)

ErrorMessages == {StateError, SnapshotError, TxError, RlsError}

\* C10: a failing remote read or write stores its message in the error
\* slot, leaves the AppState, the cache and the timers as they were and
\* issues no request; and while a message is shown every UI mutation can
\* still be applied.
C10_FailureIsContained ==
  /\ [][failures' # failures =>
          /\ authError' \in ErrorMessages
          /\ state' = state /\ localStorage' = localStorage
          /\ stateTimer' = stateTimer /\ txTimer' = txTimer
          /\ stateReqs' \subseteq stateReqs
          /\ snapshotReqs' \subseteq snapshotReqs
          /\ txReqs' \subseteq txReqs
          /\ Cardinality(stateReqs') + Cardinality(snapshotReqs') + Cardinality(txReqs')
               = Cardinality(stateReqs) + Cardinality(snapshotReqs) + Cardinality(txReqs) - 1]_vars
  /\ [](authError # NoError =>
          /\ ENABLED (\E next \in AssetInputs : AssetsChange(next))
          /\ ENABLED (\E d \in TxDates : addTransaction(d, "rent", Num(5)))
          /\ ENABLED saveSnapshot)

\* an edit was applied after a request had failed
C10_Witness ==
  /\ authError \in ErrorMessages
  /\ editsAtFailure = 0
  /\ edits = 1
  /\ state # loadState(CHOOSE c \in InitialCaches : TRUE).value
  /\ localStorage = saveState(state)

----------------------------------------------------------------------------
(* Properties of the calculators (SpecCalc)                                *)

\* the inputs with which the calculator cannot compute: a principal or a term
\* that is not positive, or a principal, rate or term that is absent
CannotCompute(P, annualRate, n) ==
  \/ LeqZero[P]
  \/ LeqZero[n]
  \/ undefined \in {P, annualRate, n}

\* C11: for every principal P > 0 and term n > 0, the EMI calculator called
\* with annual rate 0 returns round2(P / n), the straight-line installment,
\* and not the sentinel of "cannot compute" (null in the routed variant, 0 in
\* the tabbed one).
C11_ZeroRateIsStraightLine ==
  /\ (/\ call.fn = "calcEmiMonthly"
      /\ Positive(call.args.principal)
      /\ Positive(call.args.termMonths)
      /\ call.args.annualRate = Num(0))
     => call.result = round2(Div[call.args.principal, call.args.termMonths])
  /\ (/\ call.fn = "calculateEmi"
      /\ Positive(call.args.principal)
      /\ Positive(call.args.termMonths)
      /\ call.args.annualRate = Num(0))
     => call.result = round2(Div[call.args.principal, call.args.termMonths])

\* C12: whenever the principal is not positive, the term is not positive, or
\* one of principal, rate and term is absent, the EMI calculator returns its
\* sentinel (null in the routed variant, 0 in the tabbed one), and the
\* effective EMI of an auto-calculated loan is then 0.
C12_CannotComputeGivesSentinel ==
  /\ (/\ call.fn = "calcEmiMonthly"
      /\ CannotCompute(call.args.principal, call.args.annualRate, call.args.termMonths))
     => call.result = null
  /\ (/\ call.fn = "calculateEmi"
      /\ CannotCompute(call.args.principal, call.args.annualRate, call.args.termMonths))
     => call.result = Num(0)
  /\ (/\ call.fn = "getLoanMonthlyEmi"
      /\ call.args.autoCalcEmi
      /\ CannotCompute(call.args.principal, call.args.annualRate, call.args.termMonths))
     => call.result = Num(0)

\* the factor table of the monthly equivalent
Factor(tag) ==
  CASE tag = "monthly" -> Num(1)
    [] tag = "weekly" -> Fraction[52, 12]
    [] tag = "fortnightly" -> Fraction[26, 12]
    [] tag \in {"yearly", "annual"} -> Fraction[1, 12]

\* an evaluation of a normalizer with a tag of its own closed set
NormalizerCallInSet ==
  \/ call.fn = "monthlyEquivalent" /\ call.args.frequency \in PaymentFrequency
  \/ call.fn = "toMonthly" /\ call.args.frequency \in BudgetFrequency

\* C18 as stated: for every amount, the cadence normalizer returns the amount
\* itself for monthly, amount * 52 / 12 for weekly, amount * 26 / 12 for
\* fortnightly and amount / 12 for yearly/annual.
C18_FactorTable ==
  NormalizerCallInSet =>
    call.result = Mul[call.args.amount, Factor(call.args.frequency)]

\* C18, amended: for every finite amount, the cadence normalizer returns the
\* amount itself for monthly, amount * 52 / 12 for weekly, amount * 26 / 12
\* for fortnightly and amount / 12 for yearly/annual.
C18_FactorTableOfFiniteAmounts ==
  (NormalizerCallInSet /\ isFinite[call.args.amount]) =>
    call.result = Mul[call.args.amount, Factor(call.args.frequency)]

\* 100 a week is 433.33... a month
C18_Witness ==
  /\ call.fn = "monthlyEquivalent"
  /\ call.args = [amount |-> Num(100), frequency |-> "weekly"]
  /\ call.result = Fraction[1300, 3]

\* an evaluation of a normalizer with a tag outside its closed set
NormalizerCallOutsideSet ==
  \/ call.fn = "monthlyEquivalent" /\ call.args.frequency \notin PaymentFrequency
  \/ call.fn = "toMonthly" /\ call.args.frequency \notin BudgetFrequency

\* C19 as stated: for a cadence tag outside the normalizer's closed set, the
\* normalizer raises no error and returns the amount unchanged (treats it as
\* monthly).
C19_UnknownTagIsMonthly ==
  NormalizerCallOutsideSet => call.result = call.args.amount

\* C19, amended: for a cadence tag outside the normalizer's closed set, the
\* normalizer raises no error; monthlyEquivalent returns a finite amount
\* unchanged (treats the tag as monthly) and toMonthly returns the amount
\* divided by 12 (treats the tag as annual).
C19_UnknownTagTakesLastBranch ==
  NormalizerCallOutsideSet =>
    /\ (call.fn = "monthlyEquivalent" /\ isFinite[call.args.amount])
       => call.result = call.args.amount
    /\ call.fn = "toMonthly" => call.result = Div[call.args.amount, Num(12)]

\* a budget item of 100 with the tag fortnightly, which toMonthly does not know
C19_Witness ==
  /\ call.fn = "toMonthly"
  /\ call.args = [amount |-> Num(100), frequency |-> "fortnightly"]
  /\ call.result = Fraction[25, 3]

\* the base of a loan's effective EMI: the calculator's output, 0 when it
\* cannot compute, if auto-calculation is on; the manually entered EMI, 0 when
\* absent, otherwise
EmiBase(loan) ==
  IF loan.autoCalcEmi
  THEN LET output == calcEmiMonthly(loan.principal, loan.annualRate, loan.termMonths)
       IN IF output = null THEN Num(0) ELSE output
  ELSE IF loan.emi = undefined THEN Num(0) ELSE loan.emi

C29_AutoEmiIgnoresCadence ==
  (call.fn = "getLoanMonthlyEmi" /\ call.args.autoCalcEmi)
    => call.result = EmiBase(call.args)

----------------------------------------------------------------------------
(* Properties of the totals (SpecTotals)                                   *)

\* the one composition of a loan's effective monthly EMI: auto or manual,
\* then cadence-normalized, then rounded to 2 decimals
CompositionEmi(loan) ==
  round2(monthlyEquivalent(EmiBase(loan), loan.paymentFrequency))

\* the same composition for a loan of the tabbed variant, whose calculator is
\* calculateEmi and whose cadence is always monthly
TabbedCompositionEmi(loan) ==
  round2(IF loan.autoCalculate THEN calculateEmi(loan)
         ELSE IF loan.emi = undefined THEN Num(0) ELSE loan.emi)

\* the items a page of the routed variant counts: those whose currency is the
\* display currency of the state
Shown(items, s) == SelectSeq(items, LAMBDA x : x.currency = s.currency)

ShownLoans(s) == Shown(s.loans, s)

\* C14: every place that displays or aggregates a loan's EMI (the Dashboard
\* monthly EMI total, the Loans page total and per-loan cell, and the tabbed
\* App's loansMonthlyEmi) yields, for the same loans, the value given by the
\* one composition: auto or manual, then cadence-normalized, then rounded to
\* 2 decimals.
C14_OneEmiComposition ==
  /\ call.fn = "Dashboard" =>
       call.result.monthlyEmiTotal =
         SumSeq([i \in 1..Len(ShownLoans(call.args)) |->
                   CompositionEmi(ShownLoans(call.args)[i])])
  /\ call.fn = "Loans" =>
       /\ call.result.cells =
            [i \in 1..Len(ShownLoans(call.args)) |-> CompositionEmi(ShownLoans(call.args)[i])]
       /\ call.result.monthlyEmiTotal = SumSeq(call.result.cells)
  /\ call.fn = "App" =>
       call.result.loansMonthlyEmi =
         SumSeq([i \in 1..Len(call.args.loans) |-> TabbedCompositionEmi(call.args.loans[i])])

\* C15: for every collection of assets, liabilities and loans, the net worth
\* shown equals assetsTotal minus liabilitiesTotal computed from the same
\* state, on the Dashboard and in the tabbed App; the difference is the one of
\* the language's arithmetic.
C15_NetWorthIsDifference ==
  call.fn \in {"Dashboard", "App"} =>
    call.result.netWorth = Sub[call.result.assetsTotal, call.result.liabilitiesTotal]

\* the Dashboard shows a net worth whose two totals are not zero
C15_Witness ==
  /\ call.fn = "Dashboard"
  /\ Positive(call.result.assetsTotal)
  /\ Positive(call.result.liabilitiesTotal)
  /\ call.result.netWorth = Sub[call.result.assetsTotal, call.result.liabilitiesTotal]

\* C16: liabilitiesTotal equals the sum of the non-loan liabilities'
\* outstanding amounts plus the sum of the loans' outstanding balances; in the
\* routed variant, which has a display currency, assetsTotal, liabilitiesTotal
\* and monthlyEmiTotal apply the same currency filter: an item of another
\* currency contributes to none of the totals and an item of the display
\* currency contributes to its total unconverted.
C16_TotalsOfDisplayCurrency ==
  /\ call.fn = "Dashboard" =>
       /\ call.result.assetsTotal = appSum(MapValue(Shown(call.args.assets, call.args)))
       /\ call.result.liabilitiesTotal =
            Add[appSum(MapOutstanding(Shown(call.args.liabilities, call.args))),
                appSum(MapOutstandingBalance(Shown(call.args.loans, call.args)))]
       /\ call.result.monthlyEmiTotal =
            appSum([i \in 1..Len(ShownLoans(call.args)) |->
                      CompositionEmi(ShownLoans(call.args)[i])])
  /\ call.fn = "Loans" =>
       call.result.monthlyEmiTotal =
         appSum([i \in 1..Len(ShownLoans(call.args)) |->
                   CompositionEmi(ShownLoans(call.args)[i])])
  /\ call.fn = "App" =>
       call.result.liabilitiesTotal =
         Add[SumSeq(MapOutstanding(call.args.liabilities)),
             SumSeq(MapOutstandingBalance(call.args.loans))]

\* the Dashboard in GBP over a state with an asset of 100.005 GBP and one of
\* 250 USD, and with loans and liabilities of both currencies
C16_Witness ==
  /\ call.fn = "Dashboard"
  /\ call.args.currency = "GBP"
  /\ \E i \in 1..Len(call.args.assets) :
       call.args.assets[i] = [value |-> Num(250), currency |-> "USD"]
  /\ \E i \in 1..Len(call.args.liabilities) : call.args.liabilities[i].currency = "USD"
  /\ \E i \in 1..Len(call.args.loans) : call.args.loans[i].currency = "USD"
  /\ \E i \in 1..Len(call.args.loans) : call.args.loans[i].currency = "GBP"
  /\ call.result.assetsTotal = Fraction[10001, 100]

\* C17: for every state, the budget left-over equals the monthly income minus
\* the monthly expense, where the expense is the expense items plus the loans'
\* monthly EMI total, counted exactly once; the left-over of the header and
\* the left-over of the Budget view are the same value.
C17_LeftOverCountsEmiOnce ==
  call.fn = "App" =>
    /\ call.result.budgetMonthlyExpense =
         Add[SumSeq(MapToMonthly(call.args.budget.expenses)), call.result.loansMonthlyEmi]
    /\ call.result.budgetLeftOver =
         Sub[call.result.budgetMonthlyIncome, call.result.budgetMonthlyExpense]
    /\ call.result.leftOver = call.result.budgetLeftOver

\* the App over a state with budget items and loans whose EMI total is positive
C17_Witness ==
  /\ call.fn = "App"
  /\ Positive(call.result.loansMonthlyEmi)
  /\ Positive(call.result.budgetMonthlyIncome)
  /\ Len(call.args.budget.expenses) > 0
  /\ isFinite[call.result.budgetLeftOver]
  /\ call.result.leftOver = call.result.budgetLeftOver
  /\ call.result.leftOver # Sub[call.result.incomeTotal, call.result.expenseTotal]

\* a finite number with at most 2 decimals
TwoDecimals(x) == x.kind = "finite" /\ 100 % x.d = 0

\* the sum that counts an addend that is not finite as 0 and rounds the
\* final result alone
RoundedSumOfFinite(nums) ==
  round2(SumSeq([i \in 1..Len(nums) |-> IF nums[i].kind = "finite" THEN nums[i] ELSE Num(0)]))

\* C20: every total (assets, liabilities, net worth, EMI total, budget income
\* and expense) is computed by a summation that counts a non-finite addend as
\* 0 and rounds only the final result to 2 decimals, so every total is a
\* finite number with at most 2 decimals whatever the inputs.
C20_TotalsAreFiniteAndRounded ==
  /\ call.fn = "Dashboard" =>
       /\ call.result.assetsTotal =
            RoundedSumOfFinite(MapValue(Shown(call.args.assets, call.args)))
       /\ \A total \in {"assetsTotal", "liabilitiesTotal", "netWorth", "monthlyEmiTotal"} :
            TwoDecimals(call.result[total])
  /\ call.fn = "Loans" => TwoDecimals(call.result.monthlyEmiTotal)
  /\ call.fn = "App" =>
       /\ call.result.assetsTotal = RoundedSumOfFinite(MapValue(call.args.assets))
       /\ call.result.budgetMonthlyIncome =
            RoundedSumOfFinite(MapToMonthly(call.args.budget.income))
       /\ \A total \in {"assetsTotal", "liabilitiesTotal", "netWorth", "loansMonthlyEmi",
                        "budgetMonthlyIncome", "budgetMonthlyExpense"} :
            TwoDecimals(call.result[total])

----------------------------------------------------------------------------
(* Properties of the snapshot lane (SpecSnapshots)                         *)

\* a row of monthly_snapshots carries the totals of a local snapshot
RowOfSnapshot(row, snapshot) ==
  /\ row.month = snapshot.month
  /\ row.assets_total = snapshot.assetsTotal
  /\ row.liabilities_total = snapshot.liabilitiesTotal
  /\ row.net_worth = snapshot.netWorth

\* a capture in a session issues, in the step of the capture, one upsert of
\* one row keyed by the identity and the month, with the totals of the
\* snapshot it stored and the budget and EMI totals of the rendered state
CaptureIssuesOneUpsert ==
  (saveSnapshot /\ userId # NoUser) =>
    \E r \in snapshotReqs' \ snapshotReqs :
      /\ snapshotReqs' = snapshotReqs \cup {r}
      /\ r.op = "upsert" /\ r.userId = userId /\ Len(r.rows) = 1
      /\ r.rows[1].user_id = userId /\ r.rows[1].month = ThisMonth
      /\ OfMonth(state'.snapshots, ThisMonth) # {}
      /\ \A i \in OfMonth(state'.snapshots, ThisMonth) :
           RowOfSnapshot(r.rows[1], state'.snapshots[i])
      /\ r.rows[1].budget_income = budgetMonthlyIncome(state)
      /\ r.rows[1].budget_expense = budgetMonthlyExpense(state)
      /\ r.rows[1].loans_emi = loansMonthlyEmi(state)

\* the rows of the table with the key of a row
RowsOfKey(table, row) ==
  {r \in table : r.user_id = row.user_id /\ r.month = row.month}

\* with no upsert pending and no error so far, the table holds one row with
\* the key of the latest capture in a session, and it is the row of that
\* capture
TableMatchesLatestCapture ==
  (failures = 0 /\ history.lastCapture # <<>>
     /\ ~\E r \in snapshotReqs : r.op = "upsert") =>
    RowsOfKey(monthly_snapshots, history.lastCapture[1]) = {history.lastCapture[1]}

\* C21: each snapshot capture with a session issues at capture time, without
\* waiting for a debounce timer, exactly one monthly_snapshots upsert keyed
\* by (identity, month) whose totals are those of the snapshot stored locally
\* and whose budget and EMI values are the totals at capture time; so,
\* absent errors, the table holds at most one row per (identity, month) and
\* it matches the latest capture.
C21_CaptureUpsertsOneRow ==
  [][CaptureIssuesOneUpsert]_vars /\ [](TableMatchesLatestCapture)

----------------------------------------------------------------------------
(* Properties of the edit handlers (SpecEdits)                             *)

\* the snapshots of the other months, in the order of the list
OfOtherMonths(snapshots, month) == SelectSeq(snapshots, LAMBDA x : x.month # month)

\* the snapshots of the other (month, currency) keys, in the order of the list
OfOtherKeys(snapshots, month, currency) ==
  SelectSeq(snapshots, LAMBDA x : ~(x.month = month /\ x.currency = currency))

\* the capture of the tabbed variant puts its snapshot first and keeps the
\* snapshots of the other months as they were
AppCaptureIsFirst ==
  saveSnapshot =>
    /\ state'.snapshots[1].id = nextUid
    /\ state'.snapshots[1].month = ThisMonth
    /\ OfOtherMonths(state'.snapshots, ThisMonth) = OfOtherMonths(state.snapshots, ThisMonth)

\* the capture of the routed variant puts its snapshot first and keeps the
\* snapshots of the other keys as they were
DashboardCaptureIsFirst ==
  DashboardSaveSnapshot =>
    /\ routedState'.snapshots[1].id = routedUid
    /\ routedState'.snapshots[1].month = ThisMonth
    /\ routedState'.snapshots[1].currency = routedState.currency
    /\ OfOtherKeys(routedState'.snapshots, ThisMonth, routedState.currency) =
         OfOtherKeys(routedState.snapshots, ThisMonth, routedState.currency)

\* C22: after every snapshot capture, whether or not the list already held a
\* snapshot of that key, the new snapshot is the first element of the list
\* and all snapshots with other keys are unchanged and keep their relative
\* order.
C22_CaptureIsFirst == [][AppCaptureIsFirst /\ DashboardCaptureIsFirst]_vars

\* the identities of the snapshots of a list
SnapshotIds(snapshots) == {snapshots[i].id : i \in 1..Len(snapshots)}

\* the snapshots of a list that an earlier list did not hold
CreatedSnapshots(before, after) ==
  {i \in 1..Len(after) : after[i].id \notin SnapshotIds(before)}

\* a capture of the tabbed variant creates a snapshot with a fresh identity,
\* the totals of the state it captures and their difference as net worth
AppCaptureCreates ==
  saveSnapshot =>
    /\ CreatedSnapshots(state.snapshots, state'.snapshots) # {}
    /\ \A i \in CreatedSnapshots(state.snapshots, state'.snapshots) :
         /\ state'.snapshots[i].assetsTotal = SumSeq(MapValue(state.assets))
         /\ state'.snapshots[i].liabilitiesTotal =
              Add[SumSeq(MapOutstanding(state.liabilities)),
                  SumSeq(MapOutstandingBalance(state.loans))]
         /\ state'.snapshots[i].netWorth =
              Sub[state'.snapshots[i].assetsTotal, state'.snapshots[i].liabilitiesTotal]

\* a capture of the routed variant creates a snapshot with a fresh identity,
\* the totals the Dashboard shows and their difference as net worth
DashboardCaptureCreates ==
  DashboardSaveSnapshot =>
    /\ CreatedSnapshots(routedState.snapshots, routedState'.snapshots) # {}
    /\ \A i \in CreatedSnapshots(routedState.snapshots, routedState'.snapshots) :
         /\ routedState'.snapshots[i].assetsTotal = dashboardAssetsTotal(routedState)
         /\ routedState'.snapshots[i].liabilitiesTotal = dashboardLiabilitiesTotal(routedState)
         /\ routedState'.snapshots[i].netWorth =
              Sub[routedState'.snapshots[i].assetsTotal,
                  routedState'.snapshots[i].liabilitiesTotal]

\* a step that changes the loans, the assets or the liabilities
EntitiesEdited(s, t) ==
  s.loans # t.loans \/ s.assets # t.assets \/ s.liabilities # t.liabilities

\* an edit of the loans, assets or liabilities leaves every snapshot as it is
EditsKeepSnapshots ==
  /\ (mounted = "yes" /\ EntitiesEdited(state, state')) => state'.snapshots = state.snapshots
  /\ (routedMounted = "yes" /\ EntitiesEdited(routedState, routedState')) =>
       routedState'.snapshots = routedState.snapshots

\* C23: every snapshot created by a capture satisfies netWorth = assetsTotal
\* - liabilitiesTotal with the aggregator's values at capture time, gets an
\* identity different from the snapshot it replaces, and is not changed by
\* later edits to assets, liabilities or loans.
C23_SnapshotInvariants ==
  [][AppCaptureCreates /\ DashboardCaptureCreates /\ EditsKeepSnapshots]_vars

\* a snapshot that a capture created, with the assets edited since
C23_Witness ==
  \/ /\ edits >= 2
     /\ \E i \in 1..Len(state.snapshots) :
          /\ state.snapshots[i].id >= FirstFreshUid
          /\ state.snapshots[i].assetsTotal # assetsTotal(state)
  \/ /\ routedEdits >= 2
     /\ \E i \in 1..Len(routedState.snapshots) :
          /\ routedState.snapshots[i].id >= FirstRoutedUid
          /\ routedState.snapshots[i].assetsTotal # dashboardAssetsTotal(routedState)

\* the fields of AppState in which t differs from s
ChangedFields(s, t) ==
  {f \in DOMAIN s \cup DOMAIN t :
     f \notin DOMAIN s \/ f \notin DOMAIN t \/ s[f] # t[f]}

\* the mutations of the tabbed variant leave every field but their own
TabbedMutationsKeepTheRest ==
  /\ (EditAssets(EditsMaxEdits) \/ (edits < EditsMaxEdits /\ addAsset))
       => ChangedFields(state, state') \subseteq {"assets"}
  /\ (EditLoans(EditsMaxEdits) \/ (edits < EditsMaxEdits /\ addLoan))
       => ChangedFields(state, state') \subseteq {"loans"}
  /\ (EditLiabilities(EditsMaxEdits) \/ (edits < EditsMaxEdits /\ addLiability))
       => ChangedFields(state, state') \subseteq {"liabilities"}
  /\ EditBudget(EditsMaxEdits) => ChangedFields(state, state') \subseteq {"budget"}
  /\ EditTransactions(EditsMaxEdits)
       => ChangedFields(state, state') \subseteq {"expenseTransactions"}
  /\ CaptureSnapshot(EditsMaxEdits) => ChangedFields(state, state') \subseteq {"snapshots"}

\* the mutations of the routed variant leave every field but their own
RoutedMutationsKeepTheRest ==
  /\ (\E c \in Currencies : CurrencyChange(c))
       => ChangedFields(routedState, routedState') \subseteq {"currency"}
  /\ DashboardSaveSnapshot => ChangedFields(routedState, routedState') \subseteq {"snapshots"}
  /\ (\/ \E v \in AssetValues : AssetAdd(v)
      \/ \E id \in RoutedIds, v \in AssetValues : AssetEdit(id, v)
      \/ \E id \in RoutedIds : AssetRemove(id))
       => ChangedFields(routedState, routedState') \subseteq {"assets"}
  /\ (\/ \E v \in LiabilityAmounts : LiabilityAdd(v)
      \/ \E id \in RoutedIds, v \in LiabilityAmounts : LiabilityEdit(id, v)
      \/ \E id \in RoutedIds : LiabilityRemove(id))
       => ChangedFields(routedState, routedState') \subseteq {"liabilities"}
  /\ (\/ \E form \in LoanForms : LoanAdd(form)
      \/ \E id \in RoutedIds, form \in LoanForms : LoanEdit(id, form)
      \/ \E id \in RoutedIds : LoanRemove(id))
       => ChangedFields(routedState, routedState') \subseteq {"loans"}

\* C26: each UI mutation replaces only its own sub-collection: an add, edit
\* or delete on loans, assets, liabilities, budget items or transactions, a
\* currency change, and a snapshot capture each leave every other field of
\* AppState equal to its value before the mutation.
C26_MutationsKeepTheRest ==
  [][TabbedMutationsKeepTheRest /\ RoutedMutationsKeepTheRest]_vars

\* the budget was replaced in a state whose other fields all hold entries
C26_Witness ==
  /\ mounted = "yes"
  /\ edits >= 1
  /\ state.budget \in BudgetInputs
  /\ state.loans # <<>> /\ state.assets # <<>> /\ state.liabilities # <<>>
  /\ state.expenseTransactions # <<>> /\ state.snapshots # <<>>

\* no two entities of a collection carry the same id
UniqueIds(items) ==
  \A i, j \in 1..Len(items) : items[i].id = items[j].id => i = j

IdsOf(items) == {items[i].id : i \in 1..Len(items)}

\* after holds the entities of before, that of the id replaced where it was
ReplacedInPlace(before, after, id) ==
  /\ Len(after) = Len(before)
  /\ \A i \in 1..Len(before) :
       IF before[i].id = id THEN after[i].id = id ELSE after[i] = before[i]

\* after holds an entity of a new id, then the entities of before
Prepended(before, after) ==
  /\ Len(after) = Len(before) + 1
  /\ after[1].id \notin IdsOf(before)
  /\ \A i \in 1..Len(before) : after[i + 1] = before[i]

\* after holds the entities of before but the one of the id, in their order
RemovedOne(before, after, id) ==
  \E k \in 1..Len(before) :
    /\ before[k].id = id
    /\ after = SubSeq(before, 1, k - 1) \o SubSeq(before, k + 1, Len(before))

\* what upsert and remove do to the loans, the assets and the liabilities
UpsertAndRemoveKeepOrder ==
  /\ \A id \in RoutedIds :
       /\ (\E form \in LoanForms : LoanEdit(id, form))
            => ReplacedInPlace(routedState.loans, routedState'.loans, id)
       /\ (\E v \in AssetValues : AssetEdit(id, v))
            => ReplacedInPlace(routedState.assets, routedState'.assets, id)
       /\ (\E v \in LiabilityAmounts : LiabilityEdit(id, v))
            => ReplacedInPlace(routedState.liabilities, routedState'.liabilities, id)
       /\ LoanRemove(id) => RemovedOne(routedState.loans, routedState'.loans, id)
       /\ AssetRemove(id) => RemovedOne(routedState.assets, routedState'.assets, id)
       /\ LiabilityRemove(id)
            => RemovedOne(routedState.liabilities, routedState'.liabilities, id)
  /\ (\E form \in LoanForms : LoanAdd(form))
       => Prepended(routedState.loans, routedState'.loans)
  /\ (\E v \in AssetValues : AssetAdd(v))
       => Prepended(routedState.assets, routedState'.assets)
  /\ (\E v \in LiabilityAmounts : LiabilityAdd(v))
       => Prepended(routedState.liabilities, routedState'.liabilities)

\* the ids of each collection are unique
CollectionIdsUnique ==
  routedMounted = "yes" =>
    /\ UniqueIds(routedState.loans)
    /\ UniqueIds(routedState.assets)
    /\ UniqueIds(routedState.liabilities)

\* C30: starting from collections with unique ids, after any sequence of
\* upsert and remove operations on loans, assets and liabilities the ids in
\* each collection stay unique: upsert of an existing id replaces that entity
\* at the same position without changing the list length, upsert of a new id
\* prepends it, and remove deletes exactly the entity with that id and leaves
\* the others in order.
C30_IdsStayUnique == [][UpsertAndRemoveKeepOrder]_vars /\ [](CollectionIdsUnique)

\* a loan was added, then the stored loan behind it was edited in place
C30_Witness ==
  /\ routedMounted = "yes"
  /\ routedEdits >= 2
  /\ Len(routedState.loans) = 2
  /\ routedState.loans[1].id >= FirstRoutedUid
  /\ routedState.loans[2].id = StoredLoan.id
  /\ routedState.loans[2].autoCalcEmi

----------------------------------------------------------------------------
(* Properties of the EMI calculator (SpecCalc)                             *)

\* The amortization schedule of a loan of P at the rate r = rn/rd of a
\* month, repaid by installments of c/200: the balance after a month is the
\* balance before it with its interest, less the installment.  b is the
\* balance after k months in units of 1/(200 * P.d * rd^k).  The schedule
\* over-repays when an installment exceeds what is owed within n months.
RECURSIVE OverRepays(_, _, _, _, _, _)
OverRepays(b, k, n, c, P, r) ==
  IF k = n THEN FALSE
  ELSE LET owed == WideMul(b, Wide(r.d + r.n))
           paid == WideMul(WideMul(Wide(c), Wide(P.d)), WidePow(Wide(r.d), k + 1))
       IN IF WideLess(owed, paid) THEN TRUE
          ELSE OverRepays(WideSub(owed, paid), k + 1, n, c, P, r)

\* installments of c/200 repay more than the loan in n months
RepaysTooMuch(P, r, n, c) == OverRepays(Scale(Wide(P.n), 200), 0, n, c, P, r)

\* C24: for a positive principal, a positive annual rate and a positive whole
\* term the calculator returns the installment of the amortization formula
\* at the rate r = annual rate / 100 / 12 of a month, rounded to 2 decimals:
\* the result is a number of hundredths, installments of half a hundredth
\* less do not over-repay the loan in n months, installments of half a
\* hundredth more do; and it is 8791.59 for (100000, 10, 12) and 1066.19 for
\* (12000, 12, 12).
C24_EmiIsAmortization ==
  /\ (/\ call.fn = "calcEmiMonthly"
      /\ Positive(call.args.principal)
      /\ Positive(call.args.annualRate)
      /\ WholeMonths(call.args.termMonths))
     => LET r == Div[Div[call.args.annualRate, Num(100)], Num(12)]
            hundredths == Mul[call.result, Num(100)]
        IN /\ call.result.kind = "finite"
           /\ hundredths.d = 1
           /\ hundredths.n >= 1
           /\ ~RepaysTooMuch(call.args.principal, r, call.args.termMonths.n,
                             2 * hundredths.n - 1)
           /\ RepaysTooMuch(call.args.principal, r, call.args.termMonths.n,
                            2 * hundredths.n + 1)
  /\ (/\ call.fn = "calcEmiMonthly"
      /\ call.args = [principal |-> Num(100000), annualRate |-> Num(10),
                      termMonths |-> Num(12)])
     => call.result = Fraction[879159, 100]
  /\ (/\ call.fn = "calcEmiMonthly"
      /\ call.args = [principal |-> Num(12000), annualRate |-> Num(12),
                      termMonths |-> Num(12)])
     => call.result = Fraction[106619, 100]

\* the calculator has priced the loan of 100000 at 10% over 12 months
C24_Witness ==
  /\ call.fn = "calcEmiMonthly"
  /\ call.args = [principal |-> Num(100000), annualRate |-> Num(10),
                  termMonths |-> Num(12)]
  /\ call.result = Fraction[879159, 100]

----------------------------------------------------------------------------
(* Properties of the transaction lane at session start (SpecTx)            *)

\* the rows of expense_transactions that a step deletes
DeletedTxRows ==
  {row \in expense_transactions : \A kept \in expense_transactions' : kept.id # row.id}

\* C27: acquiring a session never by itself deletes remote transaction rows:
\* in every interleaving of the session-start reads and the transaction-sync
\* timer a remote transaction row is deleted only if that transaction was
\* removed by a user edit.
OnlyRemovedRowsAreDeleted == \A row \in DeletedTxRows : row.id \in history.removed

C27_SessionStartDeletesNothing == [][OnlyRemovedRowsAreDeleted]_vars

----------------------------------------------------------------------------
(* Properties of sign-out and sign-in (SpecSwitch)                         *)

\* the requests in flight
RequestsInFlight == stateReqs \cup snapshotReqs \cup txReqs

\* C25: a step that ends with no authenticated identity issues no remote
\* read, upsert or delete, leaves the remote tables alone unless it is the
\* store answering a request, and leaves no debounce timer pending.
NoRemoteWithoutIdentity ==
  userId' = NoUser =>
    /\ RequestsInFlight' \subseteq RequestsInFlight
    /\ stateTimer' = {} /\ txTimer' = {}
    /\ RequestsInFlight' = RequestsInFlight => UNCHANGED remoteVars

C25_NoRemoteWithoutIdentity == [][NoRemoteWithoutIdentity]_vars

\* the transactions of items that were entered under, or stored for, an
\* identity other than user
OfAnotherIdentity(items, user) ==
  {i \in 1..Len(items) :
     \E e \in history.enteredBy :
       e.id = items[i].id /\ e.userId \notin {user, NoUser}}

\* C28: a write made for an identity carries no transaction that was entered
\* under, or stored for, another identity: neither the upsert of the
\* transaction rows nor the upsert of the state blob.
C28_WritesCarryOwnData ==
  /\ \A r \in txReqs : r.op = "upsert" => OfAnotherIdentity(r.items, r.userId) = {}
  /\ \A r \in stateReqs :
       r.op = "upsert" => OfAnotherIdentity(r.state.expenseTransactions, r.userId) = {}

====
